---- MODULE Spec2Model ----
(***************************************************************************)
(* Event and Guest Durable Objects of scheduling-is-hard, the HTTP routes  *)
(* in front of them, and the availability handlers of the guest page.      *)
(*                                                                         *)
(* Each Event DO and each Guest DO is addressed by idFromName(id) and      *)
(* keeps its own storage; a DO method is one step.  The guest-scoped PUT   *)
(* routes make two calls to the Guest DO (getGuest, then updateGuest), so  *)
(* they are two steps and other requests may run between them.             *)
(* What a handler answers is a function of the storage it reads, given by  *)
(* the ...Response operators; a handler that only reads is no step.        *)
(* The recomputation of the aggregate is one step (alarm) and, where its   *)
(* awaits matter, one step per call (pollStart .. pollFinish).  The page   *)
(* keeps its timers and its requests in flight in `client`.                *)
(* Of the timestamps only those of the event record are modelled.          *)
(***************************************************************************)
EXTENDS Integers, Sequences, FiniteSets, TLC

(* ---------------------------------------------------------------------- *)
(* Bounds and finite universes                                             *)
(* ---------------------------------------------------------------------- *)

\* longest availability list a client sends
MaxAvailLen == 1
\* requests of one kind the page has in flight at once
MaxWrites == 1
MaxPolls == 1

EventIds == {"e1", "e2"}
GuestIds == {"g1", "g2", "g3"}
\* path parameters that are not well-formed identifiers
BadIds == {"abc", "long", "dash"}
Dates == {"d1", "d2"}
\* BACKEND_POLLING_INTERVALS.EVENT_DO, in milliseconds
AGGREGATE_AVAILABILITY_UPDATE == 1000
ALARM_ERROR_RETRY == 10000

\* the alarm of a Durable Object: not set, set to fire after a delay, or
\* fired with its handler running
NoAlarm == [phase |-> "none", delay |-> 0]
Scheduled(delay) == [phase |-> "pending", delay |-> delay]
Running == [phase |-> "running", delay |-> 0]

\* "" stands for a falsy name (undefined or the empty string)
NoName == ""
Names == {"n1", "n2"}
Sessions == {"s1", "s2"}
\* event names and descriptions, and clock readings after an event's creation
Titles == {"t1", "t2"}
Times == {1, 2}

\* optional values: storage.get() yields undefined (None) or the value
None == <<>>
Some(x) == <<x>>

\* availability is tri-state: undefined, or an array of dates
Unset == <<>>
Responded(list) == <<list>>

RECURSIVE SeqsUpTo(_, _)
SeqsUpTo(S, n) ==
  IF n = 0 THEN {<<>>}
  ELSE LET shorter == SeqsUpTo(S, n - 1)
       IN  shorter \cup {Append(s, x) : s \in {t \in shorter : Len(t) = n - 1}, x \in S}

AvailLists == SeqsUpTo(Dates, MaxAvailLen)

(* ---------------------------------------------------------------------- *)
(* Identifiers                                                             *)
(* ---------------------------------------------------------------------- *)

Digits == {"0", "1", "2", "3", "4", "5", "6", "7", "8", "9"}
Lower == {"a", "b", "c", "d", "e", "f", "g", "h", "i", "j", "k", "l", "m",
          "n", "o", "p", "q", "r", "s", "t", "u", "v", "w", "x", "y", "z"}
Upper == {"A", "B", "C", "D", "E", "F", "G", "H", "I", "J", "K", "L", "M",
          "N", "O", "P", "Q", "R", "S", "T", "U", "V", "W", "X", "Y", "Z"}

\* [0-9a-zA-Z]
Alnum == Digits \cup Lower \cup Upper

\* the characters of each identifier of the model
IdChars(id) ==
  CASE id = "e1" -> <<"Q", "w", "7", "r", "T", "y", "0", "1">>
    [] id = "e2" -> <<"a", "B", "c", "D", "e", "F", "9", "2">>
    [] id = "g1" -> <<"z", "X", "3", "v", "B", "n", "M", "1">>
    [] id = "g2" -> <<"0", "1", "2", "3", "4", "5", "6", "7">>
    [] id = "g3" -> <<"k", "L", "m", "N", "o", "P", "q", "R">>
    [] id = "abc" -> <<"a", "b", "c">>
    [] id = "long" -> <<"a", "b", "c", "d", "e", "f", "g", "h", "i">>
    [] id = "dash" -> <<"a", "b", "c", "-", "e", "f", "g", "h">>

\* the matcher without its end anchor: /^[0-9a-zA-Z]{8}/
isValidIdNoAnchor(chars) ==
  /\ Len(chars) >= 8
  /\ \A i \in 1..8 : chars[i] \in Alnum

\* value.match(/^[0-9a-zA-Z]{8}$/g) !== null
isValidId(chars) ==
  /\ Len(chars) = 8
  /\ \A i \in 1..Len(chars) : chars[i] \in Alnum

\* the path parameters the validator lets through
ValidIds == {id \in EventIds \cup GuestIds \cup BadIds : isValidId(IdChars(id))}

(* ---------------------------------------------------------------------- *)
(* State                                                                   *)
(* ---------------------------------------------------------------------- *)

VARIABLES
  eventData,   \* Event DO storage `event:${eventId}`: None or the EventData record
  guests,      \* Event DO storage `event:${eventId}:guests`: guestId -> GuestData copy
  cache,       \* Event DO storage `event:${eventId}:availability_cache`
  alarmSet,    \* the alarm of each Event DO: none, scheduled with a delay, or running
  guestStore,  \* Guest DO storage `guest:${guestId}`: None or GuestData
  pending,     \* per session: a guest-scoped PUT between its getGuest and its updateGuest
  fanout,      \* the run of updateAggregateAvailability in progress, or None
  client,      \* the React state and timers of one guest page
  actor,       \* Guest DO storage of the init/update/delete variant: keys id, eventId, guestData
  auth,        \* the last request the JWT middleware handled, with its outcome
  jwtStore,    \* the client's sessionStorage items, its clock and its last request
  generated    \* the identifier an ID generator returned last

vars == <<eventData, guests, cache, alarmSet, guestStore, pending, fanout, client, actor,
          auth, jwtStore, generated>>

EmptyMap == [x \in {} |-> 0]

\* a response: HTTP status, body, and the DO namespaces the handler addressed
Response(status, body, called) == [status |-> status, body |-> body, called |-> called]

\* the guest page before any interaction (useState / useRef initial values)
ClientInit ==
  [selectedDates |-> <<>>, pendingDatesRef |-> <<>>, debounce |-> <<>>,
   writes |-> <<>>, polls |-> <<>>, stored |-> <<>>,
   isNotAvailable |-> FALSE, notAvailableWrites |-> <<>>]

\* empty sessionStorage, no request made yet
JWTStoreInit == [jwt |-> None, expiry |-> None, now |-> 1, sent |-> None, outcome |-> None]

\* a Guest DO whose storage has no key
ActorEmpty == [id |-> None, eventId |-> None, guestData |-> None]

Init ==
  /\ eventData = [e \in EventIds |-> None]
  /\ guests = [e \in EventIds |-> EmptyMap]
  /\ cache = [e \in EventIds |-> None]
  /\ alarmSet = [e \in EventIds |-> NoAlarm]
  /\ guestStore = [g \in GuestIds |-> None]
  /\ pending = [s \in Sessions |-> None]
  /\ fanout = None
  /\ client = ClientInit
  /\ auth = None
  /\ jwtStore = JWTStoreInit
  /\ generated = None
  /\ actor = [g \in GuestIds |-> ActorEmpty]

(* ---------------------------------------------------------------------- *)
(* Guest DO                                                                *)
(* ---------------------------------------------------------------------- *)

\* updates carry a name ("" when absent) and an optional availability
Updates(name, availability) == [name |-> name, availability |-> availability]

\* an update that treats an empty array like an absent one
UpdateGuestDataEmptyAsAbsent(existing, guestId, eventId, updates) ==
  [id |-> guestId,
   eventId |-> eventId,
   name |-> IF updates.name # NoName THEN updates.name
            ELSE IF existing # None THEN existing[1].name ELSE NoName,
   availability |->
     IF updates.availability # None /\ updates.availability[1] # <<>>
     THEN Responded(updates.availability[1])
     ELSE IF existing # None THEN existing[1].availability ELSE Unset]

\* Guest.updateGuest: the record it stores and returns
UpdateGuestData(existing, guestId, eventId, updates) ==
  [id |-> guestId,
   eventId |-> eventId,
   name |-> IF updates.name # NoName THEN updates.name
            ELSE IF existing # None THEN existing[1].name ELSE NoName,
   availability |->
     IF updates.availability # None THEN Responded(updates.availability[1])
     ELSE IF existing # None THEN existing[1].availability ELSE Unset]

\* Guest.getGuest: guestData || null (a Guest DO never written to has empty storage)
getGuest(guestId) == IF guestId \in DOMAIN guestStore THEN guestStore[guestId] ELSE None

(* ---------------------------------------------------------------------- *)
(* Aggregation (Event.updateAggregateAvailability)                         *)
(* ---------------------------------------------------------------------- *)

RECURSIVE GCD(_, _)
GCD(a, b) == IF b = 0 THEN a ELSE GCD(b, a % b)

\* the quotient n / d of two numbers, as a reduced fraction
Frac(n, d) == LET g == GCD(n, d) IN <<n \div g, d \div g>>

\* heatmap[date] = (heatmap[date] || 0) + 1
Inc(heat, date) ==
  IF date \in DOMAIN heat THEN [heat EXCEPT ![date] = @ + 1]
  ELSE heat @@ (date :> 1)

RECURSIVE AddDates(_, _)
AddDates(heat, list) ==
  IF list = <<>> THEN heat ELSE AddDates(Inc(heat, Head(list)), Tail(list))

\* guestData?.availability !== undefined
HasAvailability(guestData) ==
  /\ guestData # None
  /\ guestData[1].availability # Unset

\* one round of the loop in which a failed read still counts as a response
PollOneCountsFailed(acc, guestId, failed) ==
  IF guestId \in failed THEN [acc EXCEPT !.responded = @ + 1]
  ELSE IF HasAvailability(getGuest(guestId))
  THEN [heat |-> AddDates(acc.heat, getGuest(guestId)[1].availability[1]),
        responded |-> acc.responded + 1]
  ELSE acc

\* one round of the loop: try { getGuest, count } catch { log }
PollOne(acc, guestId, failed) ==
  IF guestId \in failed THEN acc
  ELSE IF HasAvailability(getGuest(guestId))
  THEN [heat |-> AddDates(acc.heat, getGuest(guestId)[1].availability[1]),
        responded |-> acc.responded + 1]
  ELSE acc

\* the polling loop over guestIds; a read in `failed` throws and is skipped
RECURSIVE PollGuests(_, _, _)
PollGuests(ids, failed, acc) ==
  IF ids = {} THEN acc
  ELSE LET guestId == CHOOSE g \in ids : TRUE
       IN  PollGuests(ids \ {guestId}, failed, PollOne(acc, guestId, failed))

\* normalizedHeatmap[date] = respondedGuests > 0 ? count / respondedGuests : 0
StoredHeatmap(heat, respondedGuests) ==
  [date \in DOMAIN heat |->
     IF respondedGuests > 0 THEN Frac(heat[date], respondedGuests) ELSE <<0, 1>>]

\* a variant that counts as guests only the members whose read succeeded
AggregateOfReadGuests(guestList, failed) ==
  CHOOSE entry \in
    {[heatmap |-> StoredHeatmap(polled.heat, polled.responded),
      totalGuests |-> Cardinality(guestIds \ failed),
      respondedGuests |-> polled.responded] :
        guestIds \in {DOMAIN guestList},
        polled \in {PollGuests(DOMAIN guestList, failed,
                               [heat |-> EmptyMap, responded |-> 0])}} : TRUE

\* the cache entry computed from a guest list (the loop's result is bound once)
AggregateOf(guestList, failed) ==
  CHOOSE entry \in
    {[heatmap |-> StoredHeatmap(polled.heat, polled.responded),
      totalGuests |-> Cardinality(guestIds),
      respondedGuests |-> polled.responded] :
        guestIds \in {DOMAIN guestList},
        polled \in {PollGuests(DOMAIN guestList, failed,
                               [heat |-> EmptyMap, responded |-> 0])}} : TRUE

\* the cache after updateAggregateAvailability(eventId) on storage (evData, guestList, old)
updateAggregateAvailability(evData, guestList, old, failed) ==
  IF evData = None THEN old ELSE Some(AggregateOf(guestList, failed))

(* ---------------------------------------------------------------------- *)
(* Event DO                                                                *)
(* ---------------------------------------------------------------------- *)

\* the GuestData copy the Event DO keeps in its guest list
GuestCopy(guestId, eventId, name) ==
  [id |-> guestId, eventId |-> eventId, name |-> name, availability |-> Unset]

\* generateId() draws one of 62^8 identifiers; they are opaque, so the model
\* hands out the unused ones in a fixed order
GuestOrder == <<"g1", "g2", "g3">>
EventOrder == <<"e1", "e2">>

UsedGuestId(g) ==
  \/ guestStore[g] # None
  \/ \E e \in EventIds : g \in DOMAIN guests[e]
  \/ \E e \in EventIds : eventData[e] # None /\ eventData[e][1].hostGuestId = g

FreshGuestId(g) ==
  \E i \in 1..Len(GuestOrder) :
    /\ GuestOrder[i] = g
    /\ ~UsedGuestId(g)
    /\ \A j \in 1..(i - 1) : UsedGuestId(GuestOrder[j])

FreshEventId(e) ==
  \E i \in 1..Len(EventOrder) :
    /\ EventOrder[i] = e
    /\ eventData[e] = None
    /\ \A j \in 1..(i - 1) : eventData[EventOrder[j]] # None

\* storage.get(`event:${eventId}`) (an Event DO never written to has empty storage)
StoredEvent(id) == IF id \in DOMAIN eventData THEN eventData[id] ELSE None

\* storage.get(`event:${eventId}:availability_cache`)
StoredCache(id) == IF id \in DOMAIN cache THEN cache[id] ELSE None

\* storage.get(`event:${eventId}:guests`) || {}
StoredGuests(id) == IF id \in DOMAIN guests THEN guests[id] ELSE EmptyMap

\* the descriptor createEvent and getEvent return
EventDescriptor(evData) ==
  [id |-> evData.id, name |-> evData.name, description |-> evData.description,
   url |-> <<"event", evData.id>>, createdAt |-> evData.createdAt,
   updatedAt |-> evData.updatedAt, hostGuestId |-> evData.hostGuestId]

\* a createEvent that writes the host's Guest DO first and stops before the
\* event record
createEventInterruptedGuestFirst(eventId) ==
  /\ FreshEventId(eventId)
  /\ \E hostGuestId \in GuestIds :
       /\ FreshGuestId(hostGuestId)
       /\ guestStore' = [guestStore EXCEPT ![hostGuestId] =
            Some(UpdateGuestData(guestStore[hostGuestId], hostGuestId, eventId,
                                 Updates("n1", None)))]
  /\ UNCHANGED <<eventData, guests, cache, alarmSet, pending, fanout, client, actor, auth, jwtStore, generated>>

\* Event.createEvent when hostGuestDO.updateGuest throws: the event record is
\* stored, the guest list, the cache entry and the alarm are not
createEventInterrupted(eventId) ==
  /\ FreshEventId(eventId)
  /\ \E hostGuestId \in GuestIds :
       /\ FreshGuestId(hostGuestId)
       /\ eventData' = [eventData EXCEPT ![eventId] =
            Some([id |-> eventId, name |-> "t1", description |-> None,
                  createdAt |-> 0, updatedAt |-> 0, hostGuestId |-> hostGuestId])]
  /\ UNCHANGED <<guests, cache, alarmSet, guestStore, pending, fanout, client, actor, auth, jwtStore, generated>>

\* POST /events: generateId(), then Event.createEvent
createEvent(eventId, hostName) ==
  /\ FreshEventId(eventId)
  /\ \E hostGuestId \in GuestIds :
       /\ FreshGuestId(hostGuestId)
       /\ eventData' = [eventData EXCEPT ![eventId] =
            Some([id |-> eventId, name |-> "t1", description |-> None,
                  createdAt |-> 0, updatedAt |-> 0, hostGuestId |-> hostGuestId])]
       /\ guestStore' = [guestStore EXCEPT ![hostGuestId] =
            Some(UpdateGuestData(guestStore[hostGuestId], hostGuestId, eventId,
                                 Updates(hostName, None)))]
       /\ guests' = [guests EXCEPT ![eventId] =
            (hostGuestId :> GuestCopy(hostGuestId, eventId, hostName))]
       /\ cache' = [cache EXCEPT ![eventId] =
            Some([heatmap |-> EmptyMap, totalGuests |-> 1, respondedGuests |-> 0])]
       /\ alarmSet' = [alarmSet EXCEPT ![eventId] = Scheduled(AGGREGATE_AVAILABILITY_UPDATE)]
  /\ UNCHANGED <<pending, fanout, client, actor, auth, jwtStore, generated>>

\* Event.createEvent called with the id of an event that has a record: there
\* is no check for one, every key is written as in a first creation
createEventAgain(eventId, hostName, now) ==
  /\ eventData[eventId] # None
  /\ \E hostGuestId \in GuestIds :
       /\ FreshGuestId(hostGuestId)
       /\ eventData' = [eventData EXCEPT ![eventId] =
            Some([id |-> eventId, name |-> "t2", description |-> None,
                  createdAt |-> now, updatedAt |-> now, hostGuestId |-> hostGuestId])]
       /\ guestStore' = [guestStore EXCEPT ![hostGuestId] =
            Some(UpdateGuestData(guestStore[hostGuestId], hostGuestId, eventId,
                                 Updates(hostName, None)))]
       /\ guests' = [guests EXCEPT ![eventId] =
            (hostGuestId :> GuestCopy(hostGuestId, eventId, hostName))]
       /\ cache' = [cache EXCEPT ![eventId] =
            Some([heatmap |-> EmptyMap, totalGuests |-> 1, respondedGuests |-> 0])]
       /\ alarmSet' = [alarmSet EXCEPT ![eventId] = Scheduled(AGGREGATE_AVAILABILITY_UPDATE)]
  /\ UNCHANGED <<pending, fanout, client, actor, auth, jwtStore, generated>>

\* an update that stamps the record as newly created
UpdatedEventDataRestamped(evData, request, now) ==
  [evData EXCEPT
     !.createdAt = now,
     !.updatedAt = now,
     !.name = IF request.name # None THEN request.name[1] ELSE @,
     !.description = IF request.description # None THEN request.description ELSE @]

\* { ...eventData, updatedAt: now } with name and description when the request has them
UpdatedEventData(evData, request, now) ==
  [evData EXCEPT
     !.updatedAt = now,
     !.name = IF request.name # None THEN request.name[1] ELSE @,
     !.description = IF request.description # None THEN request.description ELSE @]

\* what Event.updateEvent returns: null, or the updated descriptor
updateEventReturns(eventId, request, now) ==
  IF StoredEvent(eventId) = None THEN None
  ELSE Some(EventDescriptor(UpdatedEventData(StoredEvent(eventId)[1], request, now)))

\* Event.updateEvent on an existing event: one put of `event:${eventId}`
updateEvent(eventId, request, now) ==
  /\ StoredEvent(eventId) # None
  /\ eventData' = [eventData EXCEPT ![eventId] =
       Some(UpdatedEventData(eventData[eventId][1], request, now))]
  /\ UNCHANGED <<guests, cache, alarmSet, guestStore, pending, fanout, client, actor, auth, jwtStore, generated>>

\* what POST /events answers once createEvent has run
createEventResponse(eventId) ==
  Response(200, EventDescriptor(eventData[eventId][1]), {"EVENT", "GUEST"})

\* GET /events/:eventId
getEventResponse(id) ==
  IF id \notin ValidIds
  THEN Response(400, [text |-> "Invalid event ID"], {})
  ELSE IF StoredEvent(id) = None
  THEN Response(404, [error |-> "Event not found"], {"EVENT"})
  ELSE Response(200, EventDescriptor(StoredEvent(id)[1]), {"EVENT"})

\* the link descriptor Event.generateGuestLink returns
GuestLink(eventId, guestId) ==
  [guestId |-> guestId, url |-> <<"event", eventId, "guest", guestId>>]

\* POST /events/:eventId/guests: what the route answers when no link is generated
generateGuestLinkRejected(id) ==
  IF id \notin ValidIds
  THEN Response(400, [text |-> "Invalid event ID"], {})
  ELSE IF StoredEvent(id) = None
  THEN Response(400, [error |-> "Failed to generate guest link"], {"EVENT"})
  ELSE Response(0, [none |-> TRUE], {"EVENT"})

\* what Event.generateGuestLink(eventId, ...) gives its caller
generateGuestLinkReturns(eventId) ==
  IF StoredEvent(eventId) = None THEN [throws |-> "Event not found"]
  ELSE [returns |-> GuestLink(eventId, CHOOSE guestId \in GuestIds : FreshGuestId(guestId))]

\* a link whose guest is entered in the guest list only
generateGuestLinkListOnly(id, guestName) ==
  /\ generateGuestLinkRejected(id).status = 0
  /\ \E guestId \in GuestIds :
       /\ FreshGuestId(guestId)
       /\ guests' = [guests EXCEPT ![id] = @ @@ (guestId :> GuestCopy(guestId, id, guestName))]
  /\ UNCHANGED <<eventData, cache, alarmSet, guestStore, pending, fanout, client, actor, auth, jwtStore, generated>>

\* POST /events/:eventId/guests on an existing event: Event.generateGuestLink
generateGuestLink(id, guestName) ==
  /\ generateGuestLinkRejected(id).status = 0
  /\ \E guestId \in GuestIds :
       /\ FreshGuestId(guestId)
       /\ guests' = [guests EXCEPT ![id] = @ @@ (guestId :> GuestCopy(guestId, id, guestName))]
       /\ guestStore' = [guestStore EXCEPT ![guestId] =
            Some(UpdateGuestData(guestStore[guestId], guestId, id, Updates(guestName, None)))]
  /\ UNCHANGED <<eventData, cache, alarmSet, pending, fanout, client, actor, auth, jwtStore, generated>>

\* the cache entry Event.getEventAvailability leaves behind
getEventAvailabilityCache(eventId) ==
  IF StoredEvent(eventId) = None \/ StoredCache(eventId) # None THEN StoredCache(eventId)
  ELSE updateAggregateAvailability(StoredEvent(eventId), StoredGuests(eventId), None, {})

\* GET /events/:eventId/availability
getEventAvailabilityResponse(id) ==
  IF id \notin ValidIds
  THEN Response(400, [text |-> "Invalid event ID"], {})
  ELSE IF StoredEvent(id) = None
  THEN Response(400, [error |-> "Failed to get availability"], {"EVENT"})
  ELSE Response(200, getEventAvailabilityCache(id)[1],
                IF StoredCache(id) # None THEN {"EVENT"} ELSE {"EVENT", "GUEST"})

\* Event.getEventAvailability on the Event DO: a read that recomputes and
\* stores the aggregate when no cache entry exists
getEventAvailability(eventId) ==
  /\ StoredEvent(eventId) # None
  /\ cache' = [cache EXCEPT ![eventId] = getEventAvailabilityCache(eventId)]
  /\ UNCHANGED <<eventData, guests, alarmSet, guestStore, pending, fanout, client, actor, auth, jwtStore, generated>>

\* an alarm that keeps a cache entry it finds
alarmKeepsCache(eventId) ==
  /\ alarmSet[eventId].phase = "pending"
  /\ alarmSet' = [alarmSet EXCEPT ![eventId] = Scheduled(AGGREGATE_AVAILABILITY_UPDATE)]
  /\ UNCHANGED <<eventData, guests, guestStore, pending, fanout, client, actor, auth, jwtStore, generated>>
  /\ cache' = [cache EXCEPT ![eventId] =
       IF cache[eventId] # None THEN cache[eventId]
       ELSE updateAggregateAvailability(eventData[eventId], guests[eventId], cache[eventId], {})]

\* Event.alarm: recompute the aggregate, schedule the next alarm
alarm(eventId) ==
  /\ alarmSet[eventId].phase = "pending"
  /\ alarmSet' = [alarmSet EXCEPT ![eventId] = Scheduled(AGGREGATE_AVAILABILITY_UPDATE)]
  /\ UNCHANGED <<eventData, guests, guestStore, pending, fanout, client, actor, auth, jwtStore, generated>>
  /\ cache' = [cache EXCEPT ![eventId] =
       updateAggregateAvailability(eventData[eventId], guests[eventId], cache[eventId], {})]

\* Event.alarm when the reads of the guests in `failed` throw
alarmFailing(eventId, failed) ==
  /\ alarmSet[eventId].phase = "pending"
  /\ failed \subseteq DOMAIN guests[eventId]
  /\ alarmSet' = [alarmSet EXCEPT ![eventId] = Scheduled(AGGREGATE_AVAILABILITY_UPDATE)]
  /\ UNCHANGED <<eventData, guests, guestStore, pending, fanout, client, actor, auth, jwtStore, generated>>
  /\ cache' = [cache EXCEPT ![eventId] =
       updateAggregateAvailability(eventData[eventId], guests[eventId], cache[eventId], failed)]

\* Object.keys(guestList), in insertion order
KeysOf(guestList) ==
  LET IsKey(g) == g \in DOMAIN guestList IN SelectSeq(GuestOrder, IsKey)

\* the alarm fires; updateAggregateAvailability up to the loop: read the guest
\* list and the event
pollStart(eventId) ==
  /\ fanout = None
  /\ alarmSet[eventId].phase = "pending"
  /\ eventData[eventId] # None
  /\ alarmSet' = [alarmSet EXCEPT ![eventId] = Running]
  /\ fanout' = Some([eventId |-> eventId,
                     todo |-> KeysOf(guests[eventId]),
                     waiting |-> None,
                     acc |-> [heat |-> EmptyMap, responded |-> 0],
                     totalGuests |-> Cardinality(DOMAIN guests[eventId])])
  /\ UNCHANGED <<eventData, guests, cache, guestStore, pending, client, actor, auth, jwtStore, generated>>

\* the loop calls guestDO.getGuest for the next guestId and awaits the answer
pollIssue ==
  /\ fanout # None
  /\ fanout[1].waiting = None
  /\ fanout[1].todo # <<>>
  /\ fanout' = Some([fanout[1] EXCEPT !.waiting = Some(Head(fanout[1].todo)),
                                      !.todo = Tail(fanout[1].todo)])
  /\ UNCHANGED <<eventData, guests, cache, alarmSet, guestStore, pending, client, actor, auth, jwtStore, generated>>

\* the awaited getGuest returns and the guest is counted
pollReturn ==
  /\ fanout # None
  /\ fanout[1].waiting # None
  /\ fanout' = Some([fanout[1] EXCEPT !.waiting = None,
                                      !.acc = PollOne(@, fanout[1].waiting[1], {})])
  /\ UNCHANGED <<eventData, guests, cache, alarmSet, guestStore, pending, client, actor, auth, jwtStore, generated>>

\* the awaited getGuest throws and the catch block skips the guest
pollThrow ==
  /\ fanout # None
  /\ fanout[1].waiting # None
  /\ fanout' = Some([fanout[1] EXCEPT !.waiting = None,
                                      !.acc = PollOne(@, fanout[1].waiting[1], {fanout[1].waiting[1]})])
  /\ UNCHANGED <<eventData, guests, cache, alarmSet, guestStore, pending, client, actor, auth, jwtStore, generated>>

\* after the loop: normalise and put the cache entry; alarm schedules the
\* next run
pollFinish ==
  /\ fanout # None
  /\ fanout[1].waiting = None
  /\ fanout[1].todo = <<>>
  /\ cache' = [cache EXCEPT ![fanout[1].eventId] =
       Some([heatmap |-> StoredHeatmap(fanout[1].acc.heat, fanout[1].acc.responded),
             totalGuests |-> fanout[1].totalGuests,
             respondedGuests |-> fanout[1].acc.responded])]
  /\ fanout' = None
  /\ alarmSet' = [alarmSet EXCEPT ![fanout[1].eventId] = Scheduled(AGGREGATE_AVAILABILITY_UPDATE)]
  /\ UNCHANGED <<eventData, guests, guestStore, pending, client, actor, auth, jwtStore, generated>>

\* a catch block that leaves the alarm unscheduled
pollAbortsNoRetry ==
  /\ fanout # None
  /\ fanout[1].waiting = None
  /\ fanout[1].todo = <<>>
  /\ fanout' = None
  /\ alarmSet' = [alarmSet EXCEPT ![fanout[1].eventId] = NoAlarm]
  /\ UNCHANGED <<eventData, guests, cache, guestStore, pending, client, actor, auth, jwtStore, generated>>

\* after the loop the put of the cache entry throws: the catch block of
\* alarm schedules the retry
pollAborts ==
  /\ fanout # None
  /\ fanout[1].waiting = None
  /\ fanout[1].todo = <<>>
  /\ fanout' = None
  /\ alarmSet' = [alarmSet EXCEPT ![fanout[1].eventId] = Scheduled(ALARM_ERROR_RETRY)]
  /\ UNCHANGED <<eventData, guests, cache, guestStore, pending, client, actor, auth, jwtStore, generated>>

\* Event.alarm when storage.list throws: nothing is recomputed and the catch
\* block schedules the retry
alarmThrows(eventId) ==
  /\ fanout = None
  /\ alarmSet[eventId].phase = "pending"
  /\ alarmSet' = [alarmSet EXCEPT ![eventId] = Scheduled(ALARM_ERROR_RETRY)]
  /\ UNCHANGED <<eventData, guests, cache, guestStore, pending, fanout, client, actor, auth, jwtStore, generated>>

\* the guest list after removeGuest when the entry is left in place
RemoveFromGuestsKeep(guestList, guestId) == guestList

\* delete guests[guestId]
RemoveFromGuests(guestList, guestId) ==
  [g \in DOMAIN guestList \ {guestId} |-> guestList[g]]

\* Event.removeGuest
removeGuest(eventId, guestId) ==
  /\ guestId \in DOMAIN guests[eventId]
  /\ UNCHANGED <<eventData, alarmSet, guestStore, pending, fanout, client, actor, auth, jwtStore, generated>>
  /\ LET remaining == RemoveFromGuests(guests[eventId], guestId)
     IN  /\ guests' = [guests EXCEPT ![eventId] = remaining]
         /\ cache' = [cache EXCEPT ![eventId] =
              updateAggregateAvailability(eventData[eventId], remaining, cache[eventId], {})]

\* Event.getEventGuests: Object.values(guests)
getEventGuests(eventId) == {StoredGuests(eventId)[g] : g \in DOMAIN StoredGuests(eventId)}

(* ---------------------------------------------------------------------- *)
(* Guest-scoped routes                                                     *)
(* ---------------------------------------------------------------------- *)

\* GET /guests/:guestId
getGuestResponse(id) ==
  IF id \notin ValidIds
  THEN Response(400, [text |-> "Invalid guest ID"], {})
  ELSE IF getGuest(id) = None
  THEN Response(404, [error |-> "Guest not found"], {"GUEST"})
  ELSE Response(200, getGuest(id)[1], {"GUEST"})

\* a guest-scoped PUT that has read the guest and not yet written it
Pending(op, id, eventId, name, availability) ==
  [op |-> op, id |-> id, eventId |-> eventId, name |-> name, availability |-> availability]

\* no answer yet: the handler goes on to its next call
NoBody == [none |-> TRUE]
Continue(called) == Response(0, NoBody, called)

\* PUT /guests/:guestId/name: what the handler answers before it calls updateGuest
putNameReadResponse(id, name) ==
  IF id \notin ValidIds
  THEN Response(400, [text |-> "Invalid guest ID"], {})
  ELSE IF name = NoName
  THEN Response(400, [error |-> "Name is required"], {})
  ELSE IF getGuest(id) = None
  THEN Response(404, [error |-> "Guest not found"], {"GUEST"})
  ELSE Continue({"GUEST"})

\* PUT /guests/:guestId/name, up to and including guestDO.getGuest
putNameRead(s, id, name) ==
  /\ pending[s] = None
  /\ putNameReadResponse(id, name) = Continue({"GUEST"})
  /\ pending' = [pending EXCEPT ![s] =
       Some(Pending("putName", id, getGuest(id)[1].eventId, name, <<>>))]
  /\ UNCHANGED <<eventData, guests, cache, alarmSet, guestStore, fanout, client, actor, auth, jwtStore, generated>>

\* a handler that goes on to updateGuest without looking at what getGuest returned
putAvailabilityReadResponseNoCheck(id) ==
  IF id \notin ValidIds
  THEN Response(400, [text |-> "Invalid guest ID"], {})
  ELSE Continue({"GUEST"})

\* PUT /guests/:guestId/availability: what the handler answers before it calls updateGuest
putAvailabilityReadResponse(id) ==
  IF id \notin ValidIds
  THEN Response(400, [text |-> "Invalid guest ID"], {})
  ELSE IF getGuest(id) = None
  THEN Response(404, [error |-> "Guest not found"], {"GUEST"})
  ELSE Continue({"GUEST"})

\* PUT /guests/:guestId/availability, up to and including guestDO.getGuest
putAvailabilityRead(s, id, availability) ==
  /\ pending[s] = None
  /\ putAvailabilityReadResponse(id) = Continue({"GUEST"})
  /\ pending' = [pending EXCEPT ![s] =
       Some(Pending("putAvailability", id, getGuest(id)[1].eventId, NoName, availability))]
  /\ UNCHANGED <<eventData, guests, cache, alarmSet, guestStore, fanout, client, actor, auth, jwtStore, generated>>

\* PUT /events/:eventId/guests/:guestId/availability: the answer for the two ids
updateAvailabilityResponse(eventId, guestId) ==
  IF eventId \notin ValidIds \/ guestId \notin ValidIds
  THEN Response(400, [text |-> "Invalid ID format"], {})
  ELSE IF getGuest(guestId) = None
  THEN Response(400, [error |-> "Failed to update availability"], {"GUEST"})
  ELSE Response(200, [success |-> TRUE], {"GUEST"})

\* Guest.updateAvailability, as PUT /events/:eventId/guests/:guestId/availability calls it
updateAvailability(guestId, availability) ==
  /\ {eventId \in EventIds : updateAvailabilityResponse(eventId, guestId).status = 200} # {}
  /\ UNCHANGED <<eventData, guests, cache, alarmSet, pending, fanout, client, actor, auth, jwtStore, generated>>
  /\ guestStore' = [guestStore EXCEPT ![guestId] =
       Some([guestStore[guestId][1] EXCEPT !.availability = Responded(availability)])]

\* what Guest.updateAvailability and Guest.updateName do when called for guestId
guestMethodOutcome(guestId) ==
  IF getGuest(guestId) = None THEN [throws |-> "Guest not found"] ELSE [throws |-> ""]

\* Guest.updateName
updateName(guestId, name) ==
  /\ guestMethodOutcome(guestId).throws = ""
  /\ UNCHANGED <<eventData, guests, cache, alarmSet, pending, fanout, client, actor, auth, jwtStore, generated>>
  /\ guestStore' = [guestStore EXCEPT ![guestId] =
       Some([guestStore[guestId][1] EXCEPT !.name = name])]

\* Guest.deleteGuest: storage.delete of the guest's key
deleteGuest(guestId) ==
  /\ guestStore' = [guestStore EXCEPT ![guestId] = None]
  /\ UNCHANGED <<eventData, guests, cache, alarmSet, pending, fanout, client, actor, auth, jwtStore, generated>>

\* the updates object a pending PUT passes to guestDO.updateGuest
putWriteUpdates(p) ==
  IF p.op = "putName" THEN Updates(p.name, None)
  ELSE Updates(NoName, Some(p.availability))

\* a write that adds the dates it carries to the stored ones
putWriteGuestMerge(p) ==
  LET old == IF guestStore[p.id] # None /\ guestStore[p.id][1].availability # Unset
             THEN guestStore[p.id][1].availability[1] ELSE <<>>
      IsNew(d) == \A i \in 1..Len(old) : old[i] # d
      written == UpdateGuestData(guestStore[p.id], p.id, p.eventId, putWriteUpdates(p))
  IN  IF p.op = "putName" THEN written
      ELSE [written EXCEPT !.availability = Responded(old \o SelectSeq(p.availability, IsNew))]

\* the record guestDO.updateGuest(guestId, guestData.eventId, ...) stores for a pending PUT
putWriteGuest(p) ==
  UpdateGuestData(guestStore[p.id], p.id, p.eventId, putWriteUpdates(p))

\* the rest of either PUT: guestDO.updateGuest, then c.json(updatedGuest)
putWrite(s) ==
  /\ pending[s] # None
  /\ UNCHANGED <<eventData, guests, cache, alarmSet, fanout, client, actor, auth, jwtStore, generated>>
  /\ guestStore' = [guestStore EXCEPT ![pending[s][1].id] = Some(putWriteGuest(pending[s][1]))]
  /\ pending' = [pending EXCEPT ![s] = None]

\* what the PUT answers after putWrite
putWriteResponse(p) == Response(200, putWriteGuest(p), {"GUEST"})

(* ---------------------------------------------------------------------- *)
(* Event DO: concurrent calls on the guest list                            *)
(* ---------------------------------------------------------------------- *)

\* Event.generateGuestLink up to and including the put of the guest list.
\* Only storage operations are awaited from the get of the event to this
\* put, so no other request of the Event DO runs in between; the call then
\* awaits guestDO.updateGuest.
generateGuestLinkPut(s, eventId, guestName) ==
  /\ pending[s] = None
  /\ eventData[eventId] # None
  /\ \E guestId \in GuestIds :
       /\ FreshGuestId(guestId)
       /\ guests' = [guests EXCEPT ![eventId] =
            @ @@ (guestId :> GuestCopy(guestId, eventId, guestName))]
       /\ pending' = [pending EXCEPT ![s] =
            Some(Pending("generateGuestLink", guestId, eventId, guestName, <<>>))]
  /\ UNCHANGED <<eventData, cache, alarmSet, guestStore, fanout, client, actor, auth, jwtStore, generated>>

\* the rest of Event.generateGuestLink: guestDO.updateGuest(guestId, eventId, guestData)
generateGuestLinkUpdateGuest(s) ==
  /\ pending[s] # None
  /\ pending[s][1].op = "generateGuestLink"
  /\ guestStore' = [guestStore EXCEPT ![pending[s][1].id] =
       Some(UpdateGuestData(guestStore[pending[s][1].id], pending[s][1].id,
                            pending[s][1].eventId, Updates(pending[s][1].name, None)))]
  /\ pending' = [pending EXCEPT ![s] = None]
  /\ UNCHANGED <<eventData, guests, cache, alarmSet, fanout, client, actor, auth, jwtStore, generated>>

\* a removal that puts back the list it read before the link generations in
\* flight had added their guests
removeGuestPutStale(s, eventId, guestId) ==
  /\ pending[s] = None
  /\ guestId \in DOMAIN guests[eventId]
  /\ guestStore[guestId] # None
  /\ guests' = [guests EXCEPT ![eventId] =
       [g \in {h \in DOMAIN guests[eventId] : guestStore[h] # None} \ {guestId} |->
          guests[eventId][g]]]
  /\ pending' = [pending EXCEPT ![s] = Some(Pending("removeGuest", guestId, eventId, NoName, <<>>))]
  /\ UNCHANGED <<eventData, cache, alarmSet, guestStore, fanout, client, actor, auth, jwtStore, generated>>

\* Event.removeGuest up to and including the put of the guest list: get,
\* delete guests[guestId], put, with no await of another object in between.
\* The caller names a guest whose link was returned to it.
removeGuestPut(s, eventId, guestId) ==
  /\ pending[s] = None
  /\ guestId \in DOMAIN guests[eventId]
  /\ guestStore[guestId] # None
  /\ guests' = [guests EXCEPT ![eventId] = RemoveFromGuests(guests[eventId], guestId)]
  /\ pending' = [pending EXCEPT ![s] = Some(Pending("removeGuest", guestId, eventId, NoName, <<>>))]
  /\ UNCHANGED <<eventData, cache, alarmSet, guestStore, fanout, client, actor, auth, jwtStore, generated>>

\* the rest of Event.removeGuest: updateAggregateAvailability(eventId)
removeGuestRecompute(s) ==
  /\ pending[s] # None
  /\ pending[s][1].op = "removeGuest"
  /\ cache' = [cache EXCEPT ![pending[s][1].eventId] =
       updateAggregateAvailability(eventData[pending[s][1].eventId],
                                   guests[pending[s][1].eventId],
                                   cache[pending[s][1].eventId], {})]
  /\ pending' = [pending EXCEPT ![s] = None]
  /\ UNCHANGED <<eventData, guests, alarmSet, guestStore, fanout, client, actor, auth, jwtStore, generated>>

(* ---------------------------------------------------------------------- *)
(* Guest DO methods called directly                                        *)
(* ---------------------------------------------------------------------- *)

\* Guest.updateGuest(guestId, eventId, updates) on the Guest DO of guestId
updateGuest(guestId, eventId, updates) ==
  /\ guestStore' = [guestStore EXCEPT ![guestId] =
       Some(UpdateGuestData(guestStore[guestId], guestId, eventId, updates))]
  /\ UNCHANGED <<eventData, guests, cache, alarmSet, pending, fanout, client, actor, auth, jwtStore, generated>>

\* Guest.init(guestId, eventId) of the keyed Guest DO: two unconditional puts
init(guestId, eventId) ==
  /\ actor' = [actor EXCEPT ![guestId] =
       [@ EXCEPT !.id = Some(guestId), !.eventId = Some(eventId)]]
  /\ UNCHANGED <<eventData, guests, cache, alarmSet, guestStore, pending, fanout, client, auth, jwtStore, generated>>

\* Guest.getEventId(): the stored event id, or a throw when the key is absent
getEventId(guestId) ==
  IF actor[guestId].eventId = None THEN [throws |-> "Event ID not set"]
  ELSE [returns |-> actor[guestId].eventId[1]]

\* Guest.get(): guestData || null
get(guestId) == actor[guestId].guestData

\* the record Guest.update stores under "guestData"
UpdatedGuestData(existing, id, updates) ==
  [id |-> id,
   name |-> IF updates.name # NoName THEN updates.name
            ELSE IF existing # None THEN existing[1].name ELSE NoName,
   availability |->
     IF updates.availability # None THEN Responded(updates.availability[1])
     ELSE IF existing # None THEN existing[1].availability ELSE Unset]

\* Guest.update(updates) of the keyed Guest DO; getId() throws before any write
\* when the DO was never initialised
update(guestId, updates) ==
  /\ actor[guestId].id # None
  /\ actor' = [actor EXCEPT ![guestId].guestData =
       Some(UpdatedGuestData(actor[guestId].guestData, actor[guestId].id[1], updates))]
  /\ UNCHANGED <<eventData, guests, cache, alarmSet, guestStore, pending, fanout, client, auth, jwtStore, generated>>

\* Guest.delete() of the keyed Guest DO: storage.delete("guestData")
delete(guestId) ==
  /\ actor' = [actor EXCEPT ![guestId].guestData = None]
  /\ UNCHANGED <<eventData, guests, cache, alarmSet, guestStore, pending, fanout, client, auth, jwtStore, generated>>

(* ---------------------------------------------------------------------- *)
(* Guest page (GuestPage.tsx; HostPage.tsx has the same handlers)          *)
(* ---------------------------------------------------------------------- *)

\* the guest whose page is open
PageGuest == "g1"

\* selectedDates.includes(date) ? selectedDates.filter(d => d !== date) : [...selectedDates, date]
Toggle(selectedDates, date) ==
  LET Other(d) == d # date
  IN  IF \E i \in 1..Len(selectedDates) : selectedDates[i] = date
      THEN SelectSeq(selectedDates, Other)
      ELSE Append(selectedDates, date)

\* a sequence without its i-th element
Without(seq, i) == SubSeq(seq, 1, i - 1) \o SubSeq(seq, i + 1, Len(seq))

\* every poll in flight was answered before the edit made now
MarkBeforeEdit(polls) == [i \in 1..Len(polls) |-> [polls[i] EXCEPT !.beforeEdit = TRUE]]

\* a toggle that arms a timer without clearing the one already armed
handleDateToggleNoClear(date) ==
  /\ guestStore[PageGuest] # None
  /\ Len(client.debounce) < MaxWrites + 1
  /\ client' = [client EXCEPT
       !.selectedDates = Toggle(client.selectedDates, date),
       !.pendingDatesRef = client.selectedDates,
       !.polls = MarkBeforeEdit(@),
       !.debounce = Append(@, Toggle(client.selectedDates, date))]
  /\ UNCHANGED <<eventData, guests, cache, alarmSet, guestStore, pending, fanout, actor, auth, jwtStore, generated>>

\* handleDateToggle: set the selection, remember the previous one, restart
\* the poll interval, replace the debounce timer
handleDateToggle(date) ==
  /\ guestStore[PageGuest] # None
  /\ client' = [client EXCEPT
       !.selectedDates = Toggle(client.selectedDates, date),
       !.pendingDatesRef = client.selectedDates,
       !.polls = MarkBeforeEdit(@),
       !.debounce = <<Toggle(client.selectedDates, date)>>]
  /\ UNCHANGED <<eventData, guests, cache, alarmSet, guestStore, pending, fanout, actor, auth, jwtStore, generated>>

\* the debounce timer fires: performDebouncedUpdate(targetDates) sends its PUT
debounceFires ==
  /\ client.debounce # <<>>
  /\ Len(client.writes) < MaxWrites
  /\ client' = [client EXCEPT !.debounce = Tail(@),
                              !.writes = Append(@, Head(client.debounce))]
  /\ UNCHANGED <<eventData, guests, cache, alarmSet, guestStore, pending, fanout, actor, auth, jwtStore, generated>>

\* PUT /guests/:guestId/availability stores the payload and the refresh succeeds
performDebouncedUpdateOk(i) ==
  /\ i \in 1..Len(client.writes)
  /\ guestStore[PageGuest] # None
  /\ guestStore' = [guestStore EXCEPT ![PageGuest] =
       Some(UpdateGuestData(guestStore[PageGuest], PageGuest, guestStore[PageGuest][1].eventId,
                            Updates(NoName, Some(client.writes[i]))))]
  /\ client' = [client EXCEPT !.writes = Without(@, i), !.stored = client.writes[i]]
  /\ UNCHANGED <<eventData, guests, cache, alarmSet, pending, fanout, actor, auth, jwtStore, generated>>

\* the PUT fails: catch { setSelectedDates(pendingDatesRef.current) }
performDebouncedUpdateFails(i) ==
  /\ i \in 1..Len(client.writes)
  /\ client' = [client EXCEPT !.writes = Without(@, i),
                              !.selectedDates = client.pendingDatesRef]
  /\ UNCHANGED <<eventData, guests, cache, alarmSet, guestStore, pending, fanout, actor, auth, jwtStore, generated>>

\* the PUT stores the payload, the refresh that follows it in the same try
\* block throws, and the catch reverts the selection
performDebouncedUpdateRefreshFails(i) ==
  /\ i \in 1..Len(client.writes)
  /\ guestStore[PageGuest] # None
  /\ guestStore' = [guestStore EXCEPT ![PageGuest] =
       Some(UpdateGuestData(guestStore[PageGuest], PageGuest, guestStore[PageGuest][1].eventId,
                            Updates(NoName, Some(client.writes[i]))))]
  /\ client' = [client EXCEPT !.writes = Without(@, i), !.stored = client.writes[i],
                              !.selectedDates = client.pendingDatesRef]
  /\ UNCHANGED <<eventData, guests, cache, alarmSet, pending, fanout, actor, auth, jwtStore, generated>>

\* the poll interval ticks and the server answers pollAvailability's getGuest
pollAvailabilityServed ==
  /\ guestStore[PageGuest] # None
  /\ Len(client.polls) < MaxPolls
  /\ client' = [client EXCEPT !.polls =
       Append(@, [availability |-> guestStore[PageGuest][1].availability,
                  beforeEdit |-> FALSE])]
  /\ UNCHANGED <<eventData, guests, cache, alarmSet, guestStore, pending, fanout, actor, auth, jwtStore, generated>>

\* the answer arrives: if (guestData?.availability) setSelectedDates(guestData.availability)
pollAvailabilityDelivered(i) ==
  /\ i \in 1..Len(client.polls)
  /\ client' = [client EXCEPT
       !.polls = Without(@, i),
       !.selectedDates = IF client.polls[i].availability # Unset
                         THEN client.polls[i].availability[1] ELSE @,
       !.stored = IF client.polls[i].availability # Unset
                  THEN client.polls[i].availability[1] ELSE @]
  /\ UNCHANGED <<eventData, guests, cache, alarmSet, guestStore, pending, fanout, actor, auth, jwtStore, generated>>

\* handleNotAvailable: flip the flag; when it becomes true, clear the
\* selection, restart the poll interval and send PUT availability []. The
\* call in flight keeps what was displayed when it was made.
handleNotAvailable ==
  /\ guestStore[PageGuest] # None
  /\ IF ~client.isNotAvailable
     THEN /\ Len(client.notAvailableWrites) < MaxWrites
          /\ client' = [client EXCEPT
               !.isNotAvailable = TRUE,
               !.selectedDates = <<>>,
               !.polls = MarkBeforeEdit(@),
               !.notAvailableWrites =
                  Append(@, [selectedDates |-> client.selectedDates,
                             isNotAvailable |-> client.isNotAvailable])]
     ELSE client' = [client EXCEPT !.isNotAvailable = FALSE]
  /\ UNCHANGED <<eventData, guests, cache, alarmSet, guestStore, pending, fanout, actor, auth, jwtStore, generated>>

\* the PUT of handleNotAvailable stores the empty list
handleNotAvailableOk(i) ==
  /\ i \in 1..Len(client.notAvailableWrites)
  /\ guestStore[PageGuest] # None
  /\ guestStore' = [guestStore EXCEPT ![PageGuest] =
       Some(UpdateGuestData(guestStore[PageGuest], PageGuest, guestStore[PageGuest][1].eventId,
                            Updates(NoName, Some(<<>>))))]
  /\ client' = [client EXCEPT !.notAvailableWrites = Without(@, i), !.stored = <<>>]
  /\ UNCHANGED <<eventData, guests, cache, alarmSet, pending, fanout, actor, auth, jwtStore, generated>>

\* the PUT of handleNotAvailable fails: catch { setIsNotAvailable(false) }
handleNotAvailableFails(i) ==
  /\ i \in 1..Len(client.notAvailableWrites)
  /\ client' = [client EXCEPT !.notAvailableWrites = Without(@, i),
                              !.isNotAvailable = FALSE]
  /\ UNCHANGED <<eventData, guests, cache, alarmSet, guestStore, pending, fanout, actor, auth, jwtStore, generated>>

\* loadGuestData on a freshly mounted page: every useState starts from its
\* initial value, then if (guestData.availability) setSelectedDates(...)
loadGuestData ==
  /\ guestStore[PageGuest] # None
  /\ client.debounce = <<>>
  /\ client.writes = <<>>
  /\ client.notAvailableWrites = <<>>
  /\ client.polls = <<>>
  /\ client' = [ClientInit EXCEPT
       !.selectedDates = IF guestStore[PageGuest][1].availability # Unset
                         THEN guestStore[PageGuest][1].availability[1] ELSE @,
       !.stored = IF guestStore[PageGuest][1].availability # Unset
                  THEN guestStore[PageGuest][1].availability[1] ELSE @]
  /\ UNCHANGED <<eventData, guests, cache, alarmSet, guestStore, pending, fanout, actor, auth, jwtStore, generated>>

\* GuestPage: hasSubmittedAvailability={selectedDates.length > 0 || isNotAvailable}
hasSubmittedAvailability(page) == Len(page.selectedDates) > 0 \/ page.isNotAvailable

\* HostPage pollAvailability: Boolean(guest.availability && guest.availability.length > 0)
hasResponded(guest) ==
  guest.availability # Unset /\ Len(guest.availability[1]) > 0

\* the guest filter: Boolean(guest.hasResponded && guest.availability?.length > 0)
filterHasResponded(flag, guest) ==
  flag /\ guest.availability # Unset /\ Len(guest.availability[1]) > 0

(* ---------------------------------------------------------------------- *)
(* JWT middleware (jwt.ts)                                                 *)
(* ---------------------------------------------------------------------- *)

\* the secret the server is configured with, and another one
Secret == "secret"
Keys == {Secret, "other"}

\* clock readings of the server, in seconds
Clock == {0, 1, 2}

\* compact tokens: the algorithm in the header, the key of the signature and
\* the exp claim (None when the payload has none); Garbage is text that is
\* not a token
JWTs == [alg : {"HS256", "HS512", "none"}, key : Keys, exp : {None} \cup {Some(t) : t \in Times}]
Garbage == [text |-> "garbage"]
TokenTexts == JWTs \cup {Garbage}

\* a piece of header text
Text(string) == [text |-> string]

\* Authorization header values, as the pieces they are made of; an absent
\* header and the empty string are both <<>> (both are falsy)
Schemes == {Text("Bearer "), Text("Bearer"), Text("Basic ")}
Headers ==
  {<<>>}
    \cup {<<p>> : p \in Schemes}
    \cup {<<t>> : t \in TokenTexts}
    \cup {<<p, t>> : p \in Schemes, t \in TokenTexts}
    \cup {<<Text("Bearer "), Text("Bearer "), t>> : t \in TokenTexts}

\* authHeader.startsWith(prefix)
startsWith(authHeader, prefix) == Len(authHeader) >= 1 /\ authHeader[1] = prefix

\* authHeader.replace(piece, ""): the first occurrence is removed
replace(authHeader, piece) ==
  IF \E i \in 1..Len(authHeader) : authHeader[i] = piece
  THEN LET first == CHOOSE i \in 1..Len(authHeader) :
                      /\ authHeader[i] = piece
                      /\ \A j \in 1..(i - 1) : authHeader[j] # piece
       IN  SubSeq(authHeader, 1, first - 1) \o SubSeq(authHeader, first + 1, Len(authHeader))
  ELSE authHeader

\* a verification that accepts every algorithm
verifyJWTAnyAlgorithm(token, secret, now) ==
  IF /\ Len(token) = 1
     /\ token[1] \in JWTs
     /\ token[1].alg # "none"
     /\ token[1].key = secret
     /\ (token[1].exp = None \/ now < token[1].exp[1])
  THEN Some([exp |-> token[1].exp])
  ELSE None

\* verifyJWT: jwt.verify(token, secret, {algorithms: ["HS256"]}) or null when
\* it throws (malformed, algorithm not allowed, bad signature, now >= exp)
verifyJWT(token, secret, now) ==
  IF /\ Len(token) = 1
     /\ token[1] \in JWTs
     /\ token[1].alg = "HS256"
     /\ token[1].key = secret
     /\ (token[1].exp = None \/ now < token[1].exp[1])
  THEN Some([exp |-> token[1].exp])
  ELSE None

\* jwtMiddleware(secret): 401 without calling next(), or next()
jwtMiddleware(secret, authHeader, now) ==
  IF authHeader = <<>> \/ ~startsWith(authHeader, Text("Bearer "))
  THEN [status |-> 401, next |-> FALSE,
        body |-> [error |-> "UNAUTHORIZED", message |-> "JWT token is required"]]
  ELSE IF verifyJWT(replace(authHeader, Text("Bearer ")), secret, now) = None
  THEN [status |-> 401, next |-> FALSE,
        body |-> [error |-> "UNAUTHORIZED", message |-> "Invalid or expired JWT token"]]
  ELSE [status |-> 200, next |-> TRUE, body |-> [handler |-> TRUE]]

\* a request passes through the middleware of a protected route
protectedRequest(authHeader, now) ==
  /\ auth' = Some([header |-> authHeader, now |-> now,
                   outcome |-> jwtMiddleware(Secret, authHeader, now)])
  /\ UNCHANGED <<eventData, guests, cache, alarmSet, guestStore, pending, fanout, client, actor,
                 jwtStore, generated>>

(* ---------------------------------------------------------------------- *)
(* The client's API service and its stored credential                      *)
(* ---------------------------------------------------------------------- *)

\* the last instant of the client's clock
MaxClock == 3

\* the text of new Date(t).toISOString(), and any other text
Iso(t) == [iso |-> t]
Words(string) == [words |-> string]

\* what a response of /auth/verify can carry as jwt and as expiresAt
JwtTexts == {Text("test-jwt-token")}
ExpiryTexts == {Iso(t) : t \in Times} \cup {Words("invalid-timestamp"), Words("")}

\* new Date(expiresAt).getTime(): NaN (None) unless the text is that of a date
DateOf(expiresAt) == IF "iso" \in DOMAIN expiresAt THEN Some(expiresAt.iso) ELSE None

\* !item for what sessionStorage.getItem returns: null or the empty string
Falsy(item) == item = None \/ item[1] \in {Words(""), Text("")}

\* JWTManager.clearJWT
clearJWT(store) == [store EXCEPT !.jwt = None, !.expiry = None]

\* JWTManager.getJWT: what it returns and what it leaves in sessionStorage
getJWT(store) ==
  IF Falsy(store.jwt) \/ Falsy(store.expiry)
  THEN [returns |-> None, store |-> store]
  ELSE IF DateOf(store.expiry[1]) = None \/ DateOf(store.expiry[1])[1] <= store.now
       THEN [returns |-> None, store |-> clearJWT(store)]
       ELSE [returns |-> store.jwt, store |-> store]

\* ApiService.getHeaders without additional headers: the Authorization header
getHeaders(store) ==
  IF getJWT(store).returns # None
  THEN <<Text("Bearer "), getJWT(store).returns[1]>>
  ELSE <<>>

AuthenticationExpired == "Authentication expired. Please refresh the page."

\* ApiService.handleResponse: what the call throws ("" when it returns) and
\* what it leaves in sessionStorage
handleResponse(store, status) ==
  IF status = 401 THEN [throws |-> AuthenticationExpired, store |-> clearJWT(store)]
  ELSE IF status \notin 200..299 THEN [throws |-> "API Error", store |-> store]
  ELSE [throws |-> "", store |-> store]

\* ApiService.verifyTurnstile on an ok response: JWTManager.setJWT
setJWT(jwt, expiresAt) ==
  /\ jwtStore' = [jwtStore EXCEPT !.jwt = Some(jwt), !.expiry = Some(expiresAt)]
  /\ UNCHANGED <<eventData, guests, cache, alarmSet, guestStore, pending, fanout, client, actor,
                 auth, generated>>

\* time passes on the client
tick ==
  /\ jwtStore.now < MaxClock
  /\ jwtStore' = [jwtStore EXCEPT !.now = @ + 1]
  /\ UNCHANGED <<eventData, guests, cache, alarmSet, guestStore, pending, fanout, client, actor,
                 auth, generated>>

\* ApiService.isAuthenticated
isAuthenticated ==
  /\ jwtStore' = [getJWT(jwtStore).store EXCEPT
                    !.outcome = Some([call |-> "isAuthenticated", status |-> 0,
                                      returns |-> getJWT(jwtStore).returns # None,
                                      throws |-> ""])]
  /\ UNCHANGED <<eventData, guests, cache, alarmSet, guestStore, pending, fanout, client, actor,
                 auth, generated>>

\* a method of ApiService that sends getHeaders() and passes the answer to
\* handleResponse (createEvent, getEvent, getGuest, ...), answered with status
apiCall(status) ==
  /\ jwtStore' = [handleResponse(getJWT(jwtStore).store, status).store EXCEPT
                    !.sent = Some(getHeaders(jwtStore)),
                    !.outcome = Some([call |-> "apiCall", status |-> status,
                                      returns |-> FALSE,
                                      throws |-> handleResponse(getJWT(jwtStore).store, status).throws])]
  /\ UNCHANGED <<eventData, guests, cache, alarmSet, guestStore, pending, fanout, client, actor,
                 auth, generated>>

(* ---------------------------------------------------------------------- *)
(* Identifier generators (utils/id.ts, routes.ts, Event.ts)                *)
(* ---------------------------------------------------------------------- *)

\* const chars: the alphabet the generators index into
chars == <<"A", "B", "C", "D", "E", "F", "G", "H", "I", "J", "K", "L", "M",
           "N", "O", "P", "Q", "R", "S", "T", "U", "V", "W", "X", "Y", "Z",
           "a", "b", "c", "d", "e", "f", "g", "h", "i", "j", "k", "l", "m",
           "n", "o", "p", "q", "r", "s", "t", "u", "v", "w", "x", "y", "z",
           "0", "1", "2", "3", "4", "5", "6", "7", "8", "9">>

\* chars.charAt(index)
charAt(index) == chars[index + 1]

\* the values of Math.floor(Math.random() * chars.length) that are tried:
\* the first and the last index
Draws == {0, Len(chars) - 1}

\* the prefixes a caller passes to generateId of utils/id.ts; <<>> is no prefix
Prefixes == {<<>>, <<"e">>, <<"g">>, <<"e", "v">>}

\* utils/id.ts generateId(prefix) with the random indices drawn: seven characters
\* after the prefix
generateId(prefix, draws) == prefix \o [i \in 1..7 |-> charAt(draws[i])]

\* generateId of routes.ts and Event.generateId: eight characters
generateId8(draws) == [i \in 1..8 |-> charAt(draws[i])]

\* a call of utils/id.ts generateId
callGenerateId(prefix) ==
  /\ \E draws \in [1..7 -> Draws] :
       generated' = Some([by |-> "generateId", id |-> generateId(prefix, draws)])
  /\ UNCHANGED <<eventData, guests, cache, alarmSet, guestStore, pending, fanout, client, actor,
                 auth, jwtStore>>

\* utils/id.ts generateEventId
generateEventId ==
  /\ \E draws \in [1..7 -> Draws] :
       generated' = Some([by |-> "generateEventId", id |-> generateId(<<"e">>, draws)])
  /\ UNCHANGED <<eventData, guests, cache, alarmSet, guestStore, pending, fanout, client, actor,
                 auth, jwtStore>>

\* utils/id.ts generateGuestId
generateGuestId ==
  /\ \E draws \in [1..7 -> Draws] :
       generated' = Some([by |-> "generateGuestId", id |-> generateId(<<"g">>, draws)])
  /\ UNCHANGED <<eventData, guests, cache, alarmSet, guestStore, pending, fanout, client, actor,
                 auth, jwtStore>>

\* a call of generateId of routes.ts (POST /events) or of Event.generateId
callGenerateId8(by) ==
  /\ \E draws \in [1..8 -> Draws] :
       generated' = Some([by |-> by, id |-> generateId8(draws)])
  /\ UNCHANGED <<eventData, guests, cache, alarmSet, guestStore, pending, fanout, client, actor,
                 auth, jwtStore>>

(* ---------------------------------------------------------------------- *)
(* Specification                                                           *)
(* ---------------------------------------------------------------------- *)

\* the Event DO, its alarm, and availability writes to its guests
Next ==
  \/ createEvent("e1", "n1")
  \/ \E id \in EventIds \cup BadIds : generateGuestLink(id, NoName)
  \/ \E g \in GuestIds \cup BadIds, a \in AvailLists : updateAvailability(g, a)
  \/ \E e \in EventIds : alarm(e)
  \/ \E e \in EventIds, g \in GuestIds : removeGuest(e, g)

Spec == Init /\ [][Next]_vars

\* the routes, with the requests of the sessions interleaved
NextRoutes ==
  \/ \E e \in EventIds : createEvent(e, "n1")
  \/ \E g \in GuestIds \cup BadIds, a \in AvailLists : updateAvailability(g, a)
  \/ \E s \in Sessions, id \in GuestIds \cup BadIds, n \in Names \cup {NoName} : putNameRead(s, id, n)
  \/ \E s \in Sessions, id \in GuestIds \cup BadIds, a \in AvailLists : putAvailabilityRead(s, id, a)
  \/ \E s \in Sessions : putWrite(s)

SpecRoutes == Init /\ [][NextRoutes]_vars

\* guests that are written through the routes and the Guest DO methods, and deleted
NextDelete ==
  \/ createEvent("e1", "n1")
  \/ generateGuestLink("e1", NoName)
  \/ \E g \in {"g1", "g2"}, a \in AvailLists : updateAvailability(g, a)
  \/ \E g \in {"g1", "g2"}, n \in Names : updateName(g, n)
  \/ \E s \in Sessions, id \in {"g1", "g2"}, n \in Names : putNameRead(s, id, n)
  \/ \E s \in Sessions, id \in {"g1", "g2"}, a \in AvailLists : putAvailabilityRead(s, id, a)
  \/ \E s \in Sessions : putWrite(s)
  \/ \E g \in {"g1", "g2"} : deleteGuest(g)

SpecDelete == Init /\ [][NextDelete]_vars

\* the Event DO with guest reads that may throw during a recomputation
NextFaults ==
  \/ createEvent("e1", "n1")
  \/ \E id \in EventIds : generateGuestLink(id, NoName)
  \/ \E g \in GuestIds, a \in AvailLists : updateAvailability(g, a)
  \/ \E e \in EventIds, failed \in SUBSET GuestIds : alarmFailing(e, failed)

SpecFaults == Init /\ [][NextFaults]_vars

\* requests to a route behind the JWT middleware
NextAuth == \E authHeader \in Headers, now \in Clock : protectedRequest(authHeader, now)

SpecAuth == Init /\ [][NextAuth]_vars

\* the answers a call of the API can get
Statuses == {200, 401, 500}

\* the client's credential: stored, aging, asked for and used
NextJwt ==
  \/ \E jwt \in JwtTexts, expiresAt \in ExpiryTexts : setJWT(jwt, expiresAt)
  \/ tick
  \/ isAuthenticated
  \/ \E status \in Statuses : apiCall(status)

SpecJwt == Init /\ [][NextJwt]_vars

\* the identifier generators, each called again and again
NextIds ==
  \/ \E prefix \in Prefixes : callGenerateId(prefix)
  \/ generateEventId
  \/ generateGuestId
  \/ \E by \in {"routes.generateId", "Event.generateId"} : callGenerateId8(by)

SpecIds == Init /\ [][NextIds]_vars

\* the reads of the Event DO next to its writes, with createEvent calls that
\* may fail at the call to the host's Guest DO
NextReads ==
  \/ \E e \in EventIds : createEvent(e, "n1")
  \/ \E e \in EventIds : createEventInterrupted(e)
  \/ \E id \in EventIds : generateGuestLink(id, NoName)
  \/ \E g \in {"g1", "g2"}, a \in AvailLists : updateAvailability(g, a)
  \/ \E e \in EventIds : getEventAvailability(e)
  \/ \E e \in EventIds : alarm(e)

SpecReads == Init /\ [][NextReads]_vars

\* the Event DO with its availability read, the host and the first invited
\* guest writing; the alarm of an event is re-armed by every run of the
\* handler (also in its catch block), so it keeps firing
NextLive ==
  \/ createEvent("e1", "n1")
  \/ \E id \in EventIds : generateGuestLink(id, NoName)
  \/ \E g \in {"g1", "g2"}, a \in AvailLists : updateAvailability(g, a)
  \/ \E e \in EventIds : alarm(e)
  \/ \E e \in EventIds : getEventAvailability(e)

\* the requests Event.updateEvent takes: name and description are optional
EventUpdates == [name : {None} \cup {Some(t) : t \in Titles},
                 description : {None} \cup {Some(t) : t \in Titles}]

\* the Event DO with its metadata update, the host writing
NextEvents ==
  \/ createEvent("e1", "n1")
  \/ \E id \in EventIds : generateGuestLink(id, NoName)
  \/ \E a \in AvailLists : updateAvailability("g1", a)
  \/ \E e \in EventIds : alarm(e)
  \/ \E e \in EventIds, request \in EventUpdates, now \in Times : updateEvent(e, request, now)

SpecEvents == Init /\ [][NextEvents]_vars

\* events whose creation completed or stopped at the host's Guest DO, and
\* what runs on them afterwards: alarm ticks, reads, metadata updates, links
NextInit ==
  \/ \E e \in EventIds : createEvent(e, "n1")
  \/ \E e \in EventIds : createEventInterrupted(e)
  \/ \E id \in EventIds : generateGuestLink(id, NoName)
  \/ \E e \in EventIds : getEventAvailability(e)
  \/ \E e \in EventIds : alarm(e)
  \/ \E e \in EventIds, request \in EventUpdates, now \in Times : updateEvent(e, request, now)

SpecInit == Init /\ [][NextInit]_vars

\* an event with guests and responses on which createEvent is called again
NextRecreate ==
  \/ createEvent("e1", "n1")
  \/ generateGuestLink("e1", NoName)
  \/ \E g \in {"g1", "g2"}, a \in AvailLists : updateAvailability(g, a)
  \/ alarm("e1")
  \/ \E now \in Times : createEventAgain("e1", "n2", now)

SpecRecreate == Init /\ [][NextRecreate]_vars

\* the page of guest "g1" with its timers, writes and polls in flight
NextClient ==
  \/ createEvent("e1", "n1")
  \/ \E d \in Dates : handleDateToggle(d)
  \/ debounceFires
  \/ \E i \in 1..MaxWrites : performDebouncedUpdateOk(i)
  \/ \E i \in 1..MaxWrites : performDebouncedUpdateFails(i)
  \/ \E i \in 1..MaxWrites : performDebouncedUpdateRefreshFails(i)
  \/ pollAvailabilityServed
  \/ \E i \in 1..MaxPolls : pollAvailabilityDelivered(i)

SpecClient == Init /\ [][NextClient]_vars

\* the page of guest "g1" with date toggles and the "not available" button,
\* whose write may fail
NextNotAvailable ==
  \/ createEvent("e1", "n1")
  \/ \E d \in Dates : handleDateToggle(d)
  \/ debounceFires
  \/ \E i \in 1..MaxWrites : performDebouncedUpdateOk(i)
  \/ handleNotAvailable
  \/ \E i \in 1..MaxWrites : handleNotAvailableOk(i)
  \/ \E i \in 1..MaxWrites : handleNotAvailableFails(i)
  \/ loadGuestData

SpecNotAvailable == Init /\ [][NextNotAvailable]_vars

\* the methods of the Guest DO of "g1" called directly, as any caller of the
\* namespace can
NextGuests ==
  \/ \E e \in EventIds : createEvent(e, "n1")
  \/ \E g \in {"g1"}, e \in EventIds, a \in AvailLists :
       updateGuest(g, e, Updates(NoName, Some(a)))
  \/ \E g \in {"g1"}, e \in EventIds : init(g, e)
  \/ \E g \in {"g1"}, n \in Names : update(g, Updates(n, None))
  \/ \E g \in {"g1"}, a \in AvailLists : update(g, Updates(NoName, Some(a)))
  \/ \E g \in {"g1"} : delete(g)

SpecGuests == Init /\ [][NextGuests]_vars

SpecLive == Init /\ [][NextLive]_vars /\ \A e \in EventIds : WF_vars(alarm(e))

\* the recomputation call by call, with requests arriving while it awaits a guest
NextFanout ==
  \/ createEvent("e1", "n1")
  \/ \E id \in EventIds : generateGuestLink(id, NoName)
  \/ \E g \in GuestIds, a \in AvailLists : updateAvailability(g, a)
  \/ \E e \in EventIds : pollStart(e)
  \/ pollIssue
  \/ pollReturn
  \/ pollThrow
  \/ pollFinish

SpecFanout == Init /\ [][NextFanout]_vars

\* the alarm's recomputation call by call next to removeGuest: while the
\* handler awaits a Guest DO the Event DO accepts other requests
NextRemoval ==
  \/ createEvent("e1", "n1")
  \/ generateGuestLink("e1", NoName)
  \/ \E a \in AvailLists : updateAvailability("g2", a)
  \/ \E g \in GuestIds : removeGuest("e1", g)
  \/ pollStart("e1")
  \/ pollIssue
  \/ pollReturn
  \/ pollThrow
  \/ pollFinish

SpecRemoval == Init /\ [][NextRemoval]_vars

\* the alarm of an event from its creation on: it fires, its handler runs
\* call by call, and the run ends in the try block or in the catch block
NextAlarm ==
  \/ createEvent("e1", "n1")
  \/ createEventInterrupted("e2")
  \/ generateGuestLink("e1", NoName)
  \/ \E a \in AvailLists : updateAvailability("g2", a)
  \/ alarmThrows("e1")
  \/ pollStart("e1")
  \/ pollIssue
  \/ pollReturn
  \/ pollThrow
  \/ pollFinish
  \/ pollAborts

SpecAlarm == Init /\ [][NextAlarm]_vars

(* ---------------------------------------------------------------------- *)
(* Properties of the aggregate                                             *)
(* ---------------------------------------------------------------------- *)

\* the members of e's registry whose Guest DO holds an availability
RespondedMembers(e) ==
  {g \in DOMAIN guests[e] : guestStore[g] # None /\ guestStore[g][1].availability # Unset}

\* how often guest g lists date d
Listed(g, d) ==
  Cardinality({i \in 1..Len(guestStore[g][1].availability[1]) :
                 guestStore[g][1].availability[1][i] = d})

RECURSIVE SumListed(_, _)
SumListed(gs, d) ==
  IF gs = {} THEN 0
  ELSE LET g == CHOOSE x \in gs : TRUE IN Listed(g, d) + SumListed(gs \ {g}, d)

\* the number of guests an aggregate attributes to date d: its heatmap value
\* times its respondedGuests when the value is a fraction of the responders
AttributedCount(agg, d) ==
  IF d \in DOMAIN agg.heatmap
  THEN (agg.heatmap[d][1] * agg.respondedGuests) \div agg.heatmap[d][2]
  ELSE 0

\* a step of event e that runs updateAggregateAvailability
Recompute(e) == alarm(e) \/ \E g \in GuestIds : removeGuest(e, g)

\* guest g is a member of e that has not responded and now responds with []
RespondsEmpty(e, g) ==
  /\ g \in DOMAIN guests[e]
  /\ guestStore[g] # None
  /\ guestStore[g][1].availability = Unset
  /\ updateAvailability(g, <<>>)

\* C1: every recomputation stores respondedGuests = the number of registry
\* members whose Guest DO availability is not unset (an empty list counts, an
\* unset one does not); and a member answering [] raises the respondedGuests
\* a recomputation yields by one and leaves the heatmap it yields unchanged.
C1Claim ==
  [][\A e \in EventIds :
       /\ Recompute(e) =>
            /\ cache'[e] # None
            /\ cache'[e][1].respondedGuests = Cardinality(RespondedMembers(e)')
       /\ \A g \in GuestIds :
            RespondsEmpty(e, g) =>
              \A before \in {AggregateOf(guests[e], {})}, after \in {AggregateOf(guests[e], {})'} :
                /\ after.respondedGuests = before.respondedGuests + 1
                /\ after.heatmap = before.heatmap]_vars

\* the responded members of e that list date d
GuestsListing(e, d) == {g \in RespondedMembers(e) : Listed(g, d) > 0}

\* C2: after a recomputation, the heatmap an aggregate read returns holds, for
\* every date d, the raw number of responded member guests that list d (the
\* number n is the value <<n, 1>>), and no entry for a date nobody lists.
C2Claim ==
  [][\A e \in EventIds :
       Recompute(e) =>
         \A body \in {getEventAvailabilityResponse(e)'.body} :
             \A d \in Dates :
               IF GuestsListing(e, d)' = {} THEN d \notin DOMAIN body.heatmap
               ELSE /\ d \in DOMAIN body.heatmap
                    /\ body.heatmap[d] = <<Cardinality(GuestsListing(e, d)'), 1>>]_vars

\* the aggregate over the current registry and Guest DOs, stated from the registry
ExpectedWithout(e, removed, agg) ==
  \A a \in {agg}, responded \in {RespondedMembers(e) \ removed} :
    /\ a.totalGuests = Cardinality(DOMAIN guests[e] \ removed)
    /\ a.respondedGuests = Cardinality(responded)
    /\ \A d \in Dates :
         /\ AttributedCount(a, d) = SumListed(responded, d)
         /\ d \in DOMAIN a.heatmap <=> SumListed(responded, d) > 0

\* guest g was a member of e and has been removed
RemovedFrom(e, g) ==
  /\ guestStore[g] # None
  /\ guestStore[g][1].eventId = e
  /\ g \notin DOMAIN guests[e]

\* C3: removeGuest(e, g) on a member g leaves getEventGuests(e) without g and
\* an aggregate read that returns totalGuests, respondedGuests and a heatmap
\* counted over the remaining members only; a removed guest never returns to
\* the registry, and whenever the cache changes later it is again counted over
\* the registry of that moment.
C3Theorem ==
  [][\A e \in EventIds :
       /\ \A g \in GuestIds :
            removeGuest(e, g) =>
              /\ \A copy \in getEventGuests(e)' : copy.id # g
              /\ getEventAvailabilityResponse(e)'.status = 200
              /\ ExpectedWithout(e, {g}, getEventAvailabilityResponse(e)'.body)
       /\ \A g \in GuestIds : RemovedFrom(e, g) => RemovedFrom(e, g)'
       /\ cache'[e] # cache[e] =>
            ExpectedWithout(e, {g \in GuestIds : RemovedFrom(e, g)},
                            getEventAvailabilityResponse(e).body)']_vars

\* a guest that shared a date with a remaining member has been removed, and the cache counts one guest for it
C3Witness ==
  \E e \in EventIds, g \in GuestIds, h \in GuestIds :
    /\ RemovedFrom(e, g)
    /\ guestStore[g][1].availability = Responded(<<"d1">>)
    /\ h \in DOMAIN guests[e]
    /\ guestStore[h][1].availability = Responded(<<"d1">>)
    /\ cache[e][1].totalGuests = Cardinality(DOMAIN guests[e])
    /\ AttributedCount(cache[e][1], "d1") = 1

\* C4: removeGuest(e, g) on a member g deletes g's Guest DO record, so that
\* GET /guests/g then answers 404 and a guest-scoped write to g is rejected.
C4Claim ==
  [][\A e \in EventIds, g \in GuestIds :
       removeGuest(e, g) =>
         /\ guestStore'[g] = None
         /\ getGuestResponse(g)'.status = 404
         /\ putAvailabilityReadResponse(g)'.status = 404
         /\ \A n \in Names : putNameReadResponse(g, n)'.status = 404]_vars

\* C5: the host guest of every stored event is a member of its registry
C5Claim ==
  \A e \in EventIds :
    eventData[e] # None => eventData[e][1].hostGuestId \in DOMAIN guests[e]

(* ---------------------------------------------------------------------- *)
(* Properties of the guest record and the routes                           *)
(* ---------------------------------------------------------------------- *)

\* session s completes a pending PUT of kind op
Completes(s, op) ==
  /\ pending[s] # None
  /\ pending[s][1].op = op
  /\ putWrite(s)

\* C6: a guest update that carries only a name leaves the stored availability
\* as it was (unset, the empty list or a date list), and an update whose
\* availability is the empty list stores the empty list, which is not unset.
C6Theorem ==
  [][\A s \in Sessions :
       /\ Completes(s, "putName") =>
            \A p \in {pending[s][1]} :
              /\ guestStore'[p.id] # None
              /\ guestStore'[p.id][1].name = p.name
              /\ guestStore'[p.id][1].availability = guestStore[p.id][1].availability
       /\ (Completes(s, "putAvailability") /\ pending[s][1].availability = <<>>) =>
            \A p \in {pending[s][1]} :
              /\ guestStore'[p.id] # None
              /\ guestStore'[p.id][1].availability = Responded(<<>>)
              /\ guestStore'[p.id][1].availability # Unset]_vars

\* a renamed guest whose availability is the empty list
C6Witness ==
  \E g \in GuestIds :
    /\ guestStore[g] # None
    /\ guestStore[g][1].name = "n2"
    /\ guestStore[g][1].availability = Responded(<<>>)

\* C7: after an availability write of the list D to an existing guest g, by
\* Guest.updateAvailability or by PUT /guests/g/availability, a read of g
\* answers 200 with availability D, whatever was stored before.
C7Theorem ==
  [][/\ \A g \in GuestIds, a \in AvailLists :
          (guestStore'[g] # guestStore[g] /\ updateAvailability(g, a)) =>
            /\ getGuestResponse(g)'.status = 200
            /\ getGuestResponse(g)'.body.availability = Responded(a)
     /\ \A s \in Sessions :
          Completes(s, "putAvailability") =>
            \A p \in {pending[s][1]} :
              /\ getGuestResponse(p.id)'.status = 200
              /\ getGuestResponse(p.id)'.body.availability = Responded(p.availability)]_vars

\* a guest that held one date list is about to be written another by a pending PUT
C7Witness ==
  \E s \in Sessions :
    /\ pending[s] # None
    /\ pending[s][1].op = "putAvailability"
    /\ pending[s][1].availability = <<"d2">>
    /\ guestStore[pending[s][1].id][1].availability = Responded(<<"d1">>)

\* the events whose registry holds guest g
OwningEvents(g) == {e \in EventIds : g \in DOMAIN guests[e]}

\* the strings a response body carries
BodyStrings(body) ==
  {body[f] : f \in DOMAIN body \cap {"id", "eventId", "name", "text", "error"}}

\* C8: no answer of GET /guests/g, PUT /guests/g/name or
\* PUT /guests/g/availability carries the identifier of the event owning g.
C8Claim ==
  \A g \in GuestIds :
    /\ OwningEvents(g) \cap BodyStrings(getGuestResponse(g).body) = {}
    /\ \A s \in Sessions :
         (pending[s] # None /\ pending[s][1].id = g) =>
           OwningEvents(g) \cap BodyStrings(putWriteResponse(pending[s][1]).body) = {}

\* C35: a guest-scoped write addressed to a guest id without a record (never
\* created, or deleted) fails with not-found: both PUT routes answer 404
\* before any write, Guest.updateAvailability and Guest.updateName throw
\* 'Guest not found', and none of them takes a step, so no record appears.
C35Theorem ==
  \A g \in GuestIds :
    guestStore[g] = None =>
      /\ putAvailabilityReadResponse(g) = Response(404, [error |-> "Guest not found"], {"GUEST"})
      /\ \A n \in Names :
           putNameReadResponse(g, n) = Response(404, [error |-> "Guest not found"], {"GUEST"})
      /\ guestMethodOutcome(g) = [throws |-> "Guest not found"]
      /\ \A s \in Sessions, a \in AvailLists : ~ENABLED putAvailabilityRead(s, g, a)
      /\ \A s \in Sessions, n \in Names : ~ENABLED putNameRead(s, g, n)
      /\ \A a \in AvailLists : ~ENABLED updateAvailability(g, a)
      /\ \A n \in Names : ~ENABLED updateName(g, n)

\* a member of e1 has been deleted and another id was never used: both have
\* no record, while the host has responded and no write is in flight
C35Witness ==
  /\ guestStore["g2"] = None
  /\ "g2" \in DOMAIN guests["e1"]
  /\ guestStore["g1"] # None
  /\ guestStore["g1"][1].availability = Responded(<<"d1">>)
  /\ guestStore["g3"] = None
  /\ \A s \in Sessions : pending[s] = None

\* calls of generateGuestLink and removeGuest on event "e1" that overlap:
\* each is in flight from its put of the guest list to its return
NextRegistry ==
  \/ createEvent("e1", "n1")
  \/ \E s \in Sessions, guestName \in {NoName, "n2"} : generateGuestLinkPut(s, "e1", guestName)
  \/ \E s \in Sessions : generateGuestLinkUpdateGuest(s)
  \/ \E s \in Sessions, g \in GuestIds : removeGuestPut(s, "e1", g)
  \/ \E s \in Sessions : removeGuestRecompute(s)
  \/ \E a \in AvailLists : updateAvailability("g2", a)

SpecRegistry == Init /\ [][NextRegistry]_vars

\* the arrays the json validator of PUT /guests/:guestId/availability lets
\* through (Array.isArray is its only test): the short lists of dates and a
\* list that names one date twice
Payloads == AvailLists \cup {<<"d1", "d1">>}

NextPayload ==
  \/ createEvent("e1", "n1")
  \/ generateGuestLink("e1", NoName)
  \/ \E s \in Sessions, id \in {"g1", "g2"}, availability \in Payloads :
       putAvailabilityRead(s, id, availability)
  \/ \E s \in Sessions : putWrite(s)
  \/ alarm("e1")
  \/ getEventAvailability("e1")

SpecPayload == Init /\ [][NextPayload]_vars

\* C36: in every cached aggregate respondedGuests is at most totalGuests, and
\* every date's value is at most 1 (the count attributed to the date is at
\* most respondedGuests), whatever accepted payloads were written.
C36Claim ==
  \A e \in EventIds :
    cache[e] # None =>
      /\ cache[e][1].respondedGuests <= cache[e][1].totalGuests
      /\ \A date \in DOMAIN cache[e][1].heatmap :
           cache[e][1].heatmap[date][1] <= cache[e][1].heatmap[date][2]

\* C37: once "I am not available" is on, a debounced write that is sent
\* carries the selection the page shows: the write of a toggle made before
\* the click is not sent after it.
C37Claim ==
  [][(debounceFires /\ client.isNotAvailable) =>
       Head(client.debounce) = client.selectedDates]_vars

\* C39: no update of the guest list is lost when generateGuestLink and
\* removeGuest overlap: while a call is in flight the guest it added is
\* listed and the guest it removed is not, and a step takes off the list no
\* guest other than the one a removeGuest names in that step.
C39Theorem ==
  /\ [](\A s \in Sessions :
          pending[s] # None =>
            /\ pending[s][1].op = "generateGuestLink" =>
                 pending[s][1].id \in DOMAIN guests[pending[s][1].eventId]
            /\ pending[s][1].op = "removeGuest" =>
                 pending[s][1].id \notin DOMAIN guests[pending[s][1].eventId])
  /\ [][\A e \in EventIds :
          \A g \in DOMAIN guests[e] \ DOMAIN guests'[e] :
            \E s \in Sessions :
              /\ pending[s] = None
              /\ pending'[s] = Some(Pending("removeGuest", g, e, NoName, <<>>))]_vars

\* a link generation for g3 and a removal of g2 are both in flight on e1,
\* whose list holds the host g1 and g3
C39Witness ==
  /\ \E s \in Sessions :
       /\ pending[s] # None
       /\ pending[s][1].op = "generateGuestLink"
       /\ pending[s][1].id = "g3"
  /\ \E s \in Sessions :
       /\ pending[s] # None
       /\ pending[s][1].op = "removeGuest"
       /\ pending[s][1].id = "g2"
  /\ DOMAIN guests["e1"] = {"g1", "g3"}

\* C38: a PUT whose write arrives after the guest was deleted does not
\* create the record again.
C38Claim ==
  [][\A s \in Sessions :
       (/\ putWrite(s)
        /\ guestStore[pending[s][1].id] = None) =>
         guestStore'[pending[s][1].id] = None]_vars

\* an identifier of 8 characters, each a digit or a letter
WellFormedId(id) ==
  /\ Len(IdChars(id)) = 8
  /\ \A i \in 1..Len(IdChars(id)) : IdChars(id)[i] \in Digits \cup Lower \cup Upper

\* an answer of the validator: 400 with a text body, no DO addressed
Rejected(r) ==
  /\ r.status = 400
  /\ r.called = {}
  /\ DOMAIN r.body = {"text"}

\* C9: a request whose event or guest id is not 8 characters of [A-Za-z0-9]
\* is answered 400 by the validator on every route, with no Event or Guest DO
\* addressed and no state changed on its behalf.
C9Theorem ==
  \A id \in EventIds \cup GuestIds \cup BadIds :
    ~WellFormedId(id) =>
      /\ Rejected(getEventResponse(id))
      /\ Rejected(generateGuestLinkRejected(id))
      /\ Rejected(getEventAvailabilityResponse(id))
      /\ Rejected(getGuestResponse(id))
      /\ Rejected(putAvailabilityReadResponse(id))
      /\ \A n \in Names \cup {NoName} : Rejected(putNameReadResponse(id, n))
      /\ \A e \in EventIds : Rejected(updateAvailabilityResponse(e, id))
      /\ \A g \in GuestIds : Rejected(updateAvailabilityResponse(id, g))
      /\ \A s \in Sessions :
           pending[s] # None => pending[s][1].id # id

\* an existing guest is served while the malformed ids are rejected
C9Witness ==
  \E g \in GuestIds :
    /\ getGuestResponse(g).status = 200
    /\ \A id \in BadIds : getGuestResponse(id).status = 400

\* sessions s and t both hold a pending availability PUT for the same guest
Concurrent(s, t) ==
  /\ s # t
  /\ pending[s] # None
  /\ pending[t] # None
  /\ pending[s][1].op = "putAvailability"
  /\ pending[t][1].op = "putAvailability"
  /\ pending[s][1].id = pending[t][1].id

\* C10: when two sessions hold availability PUTs D1 and D2 for one guest and
\* one of them is applied, the guest stores exactly its list, and the other
\* is still to be applied and will answer 200 with exactly its own list:
\* the last write wins and nothing is merged.
C10Theorem ==
  [][\A s, t \in Sessions :
       (Concurrent(s, t) /\ putWrite(s)) =>
         \A p \in {pending[s][1]}, q \in {pending[t][1]} :
           /\ putWriteResponse(p).status = 200
           /\ putWriteResponse(p).body.availability = Responded(p.availability)
           /\ guestStore'[p.id][1].availability = Responded(p.availability)
           /\ pending'[t] = pending[t]
           /\ putWriteResponse(q)'.status = 200
           /\ putWriteResponse(q)'.body.availability = Responded(q.availability)]_vars

\* one of two concurrent writes of different lists has been applied, the other is pending
C10Witness ==
  \E s \in Sessions, g \in GuestIds :
    /\ pending[s] # None
    /\ pending[s][1].op = "putAvailability"
    /\ pending[s][1].id = g
    /\ pending[s][1].availability = <<"d1">>
    /\ guestStore[g][1].availability = Responded(<<"d2">>)
    /\ \A t \in Sessions \ {s} : pending[t] = None

(* ---------------------------------------------------------------------- *)
(* Properties of failing and slow guest reads                              *)
(* ---------------------------------------------------------------------- *)

\* agg counts the members of e outside `failed` and nobody else
CountedWithout(e, failed, agg) ==
  \A a \in {agg}, responded \in {RespondedMembers(e) \ failed} :
    /\ a.totalGuests = Cardinality(DOMAIN guests[e])
    /\ a.respondedGuests = Cardinality(responded)
    /\ \A d \in Dates :
         /\ AttributedCount(a, d) = SumListed(responded, d)
         /\ d \in DOMAIN a.heatmap <=> SumListed(responded, d) > 0

\* C11: a recomputation in which the reads of some but not all members fail
\* still stores a cache entry; the failed guests add nothing to
\* respondedGuests or to the heatmap, and every other member is counted as
\* in a recomputation without failures.
C11Theorem ==
  [][\A e \in EventIds, failed \in SUBSET GuestIds :
       (/\ failed # {}
        /\ failed # DOMAIN guests[e]
        /\ alarmFailing(e, failed)) =>
         /\ cache'[e] # None
         /\ CountedWithout(e, failed, cache'[e][1])
         /\ \A others \in {AggregateOf([g \in DOMAIN guests[e] \ failed |-> guests[e][g]], {})} :
              /\ cache'[e][1].respondedGuests = others.respondedGuests
              /\ cache'[e][1].heatmap = others.heatmap]_vars

\* the cache leaves out a member that has responded with a date
C11Witness ==
  \E e \in EventIds, g \in GuestIds, h \in GuestIds :
    /\ g # h
    /\ {g, h} \subseteq DOMAIN guests[e]
    /\ guestStore[g][1].availability = Responded(<<"d1">>)
    /\ guestStore[h][1].availability = Responded(<<"d1">>)
    /\ cache[e] # None
    /\ CountedWithout(e, {g}, cache[e][1])
    /\ cache[e][1].respondedGuests = 1

\* C26: the totalGuests a recomputation stores is the number of ids in the
\* event's guest list when it runs, the host's among them, whichever member
\* reads fail and whoever has responded; the entry createEvent stores counts
\* the host, the only member then.
C26Theorem ==
  /\ [][\A e \in EventIds, failed \in SUBSET GuestIds :
          alarmFailing(e, failed) =>
            /\ cache'[e] # None
            /\ cache'[e][1].totalGuests = Cardinality(DOMAIN guests[e])
            /\ cache'[e][1].totalGuests = Cardinality(DOMAIN guests'[e])]_vars
  /\ [][\A e \in EventIds :
          createEvent(e, "n1") =>
            /\ DOMAIN guests'[e] = {eventData'[e][1].hostGuestId}
            /\ cache'[e][1].totalGuests = 1]_vars

\* three members are counted, the host among them, while one has not
\* responded and one responder is missing from the counts
C26Witness ==
  /\ DOMAIN guests["e1"] = {"g1", "g2", "g3"}
  /\ eventData["e1"][1].hostGuestId = "g1"
  /\ guestStore["g1"][1].availability = Responded(<<"d1">>)
  /\ guestStore["g2"][1].availability = Responded(<<"d2">>)
  /\ guestStore["g3"][1].availability = Unset
  /\ cache["e1"][1].totalGuests = 3
  /\ cache["e1"][1].respondedGuests = 1
  /\ DOMAIN cache["e1"][1].heatmap = {"d2"}

\* C27: a recomputation that finishes after removeGuest(e, g) has returned
\* does not store a result that still counts g: the totalGuests it stores is
\* not larger than the guest list g was removed from.
C27Claim ==
  [][\A g \in GuestIds :
       (/\ pollFinish
        /\ RemovedFrom(fanout[1].eventId, g)) =>
         \A e \in {fanout[1].eventId} :
           cache'[e][1].totalGuests <= Cardinality(DOMAIN guests'[e])]_vars

\* C28: createEvent leaves an alarm scheduled; an alarm that is scheduled or
\* running is never left unscheduled; and a run of the handler ends with the
\* alarm scheduled again, after the update interval when the run stored its
\* result and after the retry interval when it threw.
C28Theorem ==
  /\ [][\A e \in EventIds :
          createEvent(e, "n1") => alarmSet'[e] = Scheduled(AGGREGATE_AVAILABILITY_UPDATE)]_vars
  /\ [][\A e \in EventIds :
          alarmSet[e].phase # "none" => alarmSet'[e].phase # "none"]_vars
  /\ [][\A e \in EventIds :
          (alarmSet[e].phase = "running" /\ alarmSet'[e].phase # "running") =>
            /\ alarmSet'[e].phase = "pending"
            /\ alarmSet'[e].delay =
                 IF pollFinish THEN AGGREGATE_AVAILABILITY_UPDATE ELSE ALARM_ERROR_RETRY]_vars
  /\ [][\A e \in EventIds :
          alarmThrows(e) => alarmSet'[e] = Scheduled(ALARM_ERROR_RETRY)]_vars

\* the handler threw after a guest joined and responded: the retry is
\* scheduled and the cache still counts the host only
C28Witness ==
  /\ alarmSet["e1"] = Scheduled(ALARM_ERROR_RETRY)
  /\ fanout = None
  /\ DOMAIN guests["e1"] = {"g1", "g2"}
  /\ guestStore["g2"][1].availability = Responded(<<"d1">>)
  /\ cache["e1"][1].totalGuests = 1

\* C29: a run of the alarm handler in which the read of at least one member
\* throws schedules the next run after the error-retry interval.
C29Claim ==
  [][\A e \in EventIds, failed \in SUBSET GuestIds :
       (failed # {} /\ alarmFailing(e, failed)) =>
         alarmSet'[e] = Scheduled(ALARM_ERROR_RETRY)]_vars

\* getEventAvailability(e) answers with the aggregate of what is stored now
Visible(e) ==
  \A r \in {getEventAvailabilityResponse(e)} :
    /\ r.status = 200
    /\ cache[e] = Some(r.body)
    /\ CountedWithout(e, {}, r.body)

\* C13: a recomputation by the alarm makes the registry and every stored
\* availability of its members visible in getEventAvailability; between
\* recomputations the answer of getEventAvailability does not change; and
\* with an alarm that keeps firing every event's answer becomes current again
\* after every change.
C13Theorem ==
  /\ [][\A e \in EventIds :
          /\ (eventData[e] # None /\ alarm(e)) => Visible(e)'
          /\ (cache[e] # None /\ ~alarm(e))
               => getEventAvailabilityResponse(e)' = getEventAvailabilityResponse(e)]_vars
  /\ \A e \in EventIds : (eventData[e] # None) ~> Visible(e)

\* a guest link and an availability written after an earlier recomputation are
\* in the answer
C13Witness ==
  /\ Visible("e1")
  /\ cache["e1"][1].totalGuests = 2
  /\ cache["e1"][1].respondedGuests = 1
  /\ "d1" \in DOMAIN cache["e1"][1].heatmap

\* C12: a fan-out never depends on the answer of the read it has issued:
\* while a read is outstanding it can issue the read of the next member, and
\* when no member is left to read it can store its result.
C12Claim ==
  (fanout # None /\ fanout[1].waiting # None) =>
    IF fanout[1].todo # <<>> THEN ENABLED pollIssue ELSE ENABLED pollFinish

(* ---------------------------------------------------------------------- *)
(* Properties of the Event DO methods                                      *)
(* ---------------------------------------------------------------------- *)

\* C21: a read of an event's availability leaves everything stored as it
\* was, and the same read made again right after it gets the same answer.
C21Claim ==
  [][\A e \in EventIds :
       getEventAvailability(e) =>
         /\ getEventAvailabilityResponse(e)' = getEventAvailabilityResponse(e)
         /\ cache' = cache]_vars

\* C25: the url of the link descriptor generateGuestLink returns has the
\* form /guest/{guestId} and no segment of it is the event's identifier.
C25Claim ==
  [][\A id \in EventIds :
       generateGuestLink(id, NoName) =>
         \A link \in {generateGuestLinkReturns(id).returns} :
           /\ link.url = <<"guest", link.guestId>>
           /\ \A i \in 1..Len(link.url) : link.url[i] # id]_vars

\* C30: after a guest-scoped write to a member g of event e, the entry of g
\* in getEventGuests(e) carries the name and availability that a read of
\* g's Guest DO returns.
C30Claim ==
  [][\A s \in Sessions, e \in EventIds :
       (/\ putWrite(s)
        /\ pending[s][1].id \in DOMAIN guests[e]) =>
         \A g \in {pending[s][1].id} :
           \E copy \in getEventGuests(e)' :
             /\ copy.id = g
             /\ copy.name = getGuest(g)'[1].name
             /\ copy.availability = getGuest(g)'[1].availability]_vars

\* event e has a record whose hostGuestId names a guest without a record
Orphaned(e) ==
  /\ eventData[e] # None
  /\ guestStore[eventData[e][1].hostGuestId] = None

\* C31: a createEvent that stops between its two writes leaves an event
\* record whose hostGuestId names a guest without a record and outside the
\* guest list; from then on no alarm tick, read, metadata update or guest
\* link creates that guest, changes the hostGuestId or removes the event.
C31Theorem ==
  /\ [][\A e \in EventIds :
          createEventInterrupted(e) =>
            /\ Orphaned(e)'
            /\ eventData'[e][1].hostGuestId \notin DOMAIN guests'[e]
            /\ getEventResponse(e)'.status = 200]_vars
  /\ [][\A e \in EventIds :
          Orphaned(e) =>
            /\ Orphaned(e)'
            /\ eventData'[e][1].hostGuestId = eventData[e][1].hostGuestId]_vars

\* an interrupted event whose metadata was updated and whose availability
\* was read, next to a complete event with a guest
C31Witness ==
  /\ Orphaned("e2")
  /\ eventData["e2"][1].name = "t2"
  /\ eventData["e2"][1].updatedAt = 2
  /\ cache["e2"] # None
  /\ DOMAIN guests["e1"] = {"g1", "g2"}

\* C33: createEvent for an event id that has a record leaves the event
\* record with its hostGuestId, the guest list and the cache entry as they are.
C33Claim ==
  [][\A e \in EventIds, now \in Times :
       createEventAgain(e, "n2", now) =>
         /\ eventData'[e] = eventData[e]
         /\ guests'[e] = guests[e]
         /\ cache'[e] = cache[e]]_vars

\* guest g is new: no guest list and no Guest DO knows it
Fresh(g) == guestStore[g] = None /\ \A e \in EventIds : g \notin DOMAIN guests[e]

\* C19: generateGuestLink on an existing event returns {guestId, url} for a
\* guest id that was not in use; after the call that id is in the event's
\* guest list and its Guest DO holds a record bound to the event with no
\* availability, and nothing else about guests changes. On an id without an
\* event record the call throws 'Event not found' and no step is taken.
C19Theorem ==
  /\ [](\A id \in EventIds \cup BadIds :
          StoredEvent(id) = None =>
            /\ generateGuestLinkReturns(id) = [throws |-> "Event not found"]
            /\ ~ENABLED generateGuestLink(id, NoName))
  /\ [][\A id \in EventIds :
          generateGuestLink(id, NoName) =>
            \E g \in GuestIds :
              /\ generateGuestLinkReturns(id) = [returns |-> GuestLink(id, g)]
              /\ Fresh(g)
              /\ DOMAIN guests'[id] = DOMAIN guests[id] \cup {g}
              /\ guestStore'[g] # None
              /\ guestStore'[g][1].id = g
              /\ guestStore'[g][1].eventId = id
              /\ guestStore'[g][1].availability = Unset
              /\ \A h \in GuestIds \ {g} : guestStore'[h] = guestStore[h]
              /\ \A e \in EventIds \ {id} : guests'[e] = guests[e]
              /\ \A h \in DOMAIN guests[id] : guests'[id][h] = guests[id][h]]_vars

\* a generated link's guest is a member of e1 next to the host and has not responded
C19Witness ==
  /\ DOMAIN guests["e1"] = {"g1", "g2"}
  /\ eventData["e1"][1].hostGuestId = "g1"
  /\ guestStore["g2"] # None
  /\ guestStore["g2"][1].eventId = "e1"
  /\ guestStore["g2"][1].availability = Unset

\* C20: updateEvent on an existing event changes at most the name, the
\* description and updatedAt of that event's record, and those only as the
\* request says; id, createdAt, hostGuestId, every other event, the guest
\* lists, the caches, the alarms and every Guest DO stay as they are, and the
\* updated descriptor is returned. On an id without an event record it
\* returns null and takes no step.
C20Theorem ==
  /\ [](\A e \in EventIds, request \in EventUpdates, now \in Times :
          StoredEvent(e) = None =>
            /\ updateEventReturns(e, request, now) = None
            /\ ~ENABLED updateEvent(e, request, now))
  /\ [][\A e \in EventIds, request \in EventUpdates, now \in Times :
          updateEvent(e, request, now) =>
            /\ eventData'[e] # None
            /\ eventData'[e][1].id = eventData[e][1].id
            /\ eventData'[e][1].createdAt = eventData[e][1].createdAt
            /\ eventData'[e][1].hostGuestId = eventData[e][1].hostGuestId
            /\ eventData'[e][1].updatedAt = now
            /\ eventData'[e][1].name =
                 IF request.name = None THEN eventData[e][1].name ELSE request.name[1]
            /\ eventData'[e][1].description =
                 IF request.description = None THEN eventData[e][1].description
                 ELSE request.description
            /\ updateEventReturns(e, request, now) = Some(EventDescriptor(eventData'[e][1]))
            /\ \A f \in EventIds \ {e} : eventData'[f] = eventData[f]
            /\ guests' = guests
            /\ cache' = cache
            /\ alarmSet' = alarmSet
            /\ guestStore' = guestStore
            /\ actor' = actor]_vars

\* an event with a guest and a cache entry whose name and description were updated
C20Witness ==
  /\ eventData["e1"] # None
  /\ eventData["e1"][1].name = "t2"
  /\ eventData["e1"][1].description = Some("t1")
  /\ eventData["e1"][1].createdAt = 0
  /\ eventData["e1"][1].updatedAt = 2
  /\ DOMAIN guests["e1"] = {"g1", "g2"}
  /\ cache["e1"] # None
  /\ cache["e1"][1].respondedGuests = 1

(* ---------------------------------------------------------------------- *)
(* Properties of the Guest DO methods                                      *)
(* ---------------------------------------------------------------------- *)

\* C14: the event a guest is bound to never changes: neither the eventId of
\* a stored guest record nor the eventId key of an initialised Guest DO is
\* ever replaced by another event's id.
C14Claim ==
  [][\A g \in GuestIds :
       /\ (guestStore[g] # None /\ guestStore'[g] # None)
            => guestStore'[g][1].eventId = guestStore[g][1].eventId
       /\ actor[g].eventId # None => actor'[g].eventId = actor[g].eventId]_vars

\* what the reads of a Guest DO answer: get() and getEventId()
Reads(a) ==
  [get |-> a.guestData,
   getEventId |-> IF a.eventId = None THEN [throws |-> "Event ID not set"]
                  ELSE [returns |-> a.eventId[1]]]

\* C18: delete() can always be called, also on a deleted guest, and after it
\* get() and getEventId() answer exactly as those of a Guest DO that was
\* never initialised.
C18Claim ==
  /\ [](\A g \in GuestIds : ENABLED delete(g))
  /\ [][\A g \in GuestIds :
          delete(g) => /\ get(g)' = Reads(ActorEmpty).get
                       /\ getEventId(g)' = Reads(ActorEmpty).getEventId]_vars

(* ---------------------------------------------------------------------- *)
(* Properties of the guest page                                            *)
(* ---------------------------------------------------------------------- *)

\* C15: when a debounced write fails, the selection becomes the last
\* selection known to be stored on the server (the last one written
\* successfully or received from a poll).
C15Claim ==
  [][\A i \in 1..MaxWrites :
       performDebouncedUpdateFails(i) => client'.selectedDates = client.stored]_vars

\* C16: the answer of a poll that the server gave before a local edit does
\* not replace the selection when it arrives after the edit.
C16Claim ==
  [][\A i \in 1..MaxPolls :
       (pollAvailabilityDelivered(i) /\ client.polls[i].beforeEdit)
         => client'.selectedDates = client.selectedDates]_vars

\* C17: every toggle changes the selection at once and leaves exactly one
\* armed timer, whose payload is the whole selection after that toggle; the
\* timer fires once and sends exactly that payload as one write.
C17Theorem ==
  /\ [](Len(client.debounce) <= 1)
  /\ [][\A d \in Dates :
          handleDateToggle(d) =>
            /\ client'.selectedDates = Toggle(client.selectedDates, d)
            /\ client'.debounce = <<client'.selectedDates>>
            /\ client'.writes = client.writes]_vars
  /\ [][debounceFires =>
          /\ client'.debounce = <<>>
          /\ client'.writes = client.writes \o client.debounce]_vars

\* two toggles in one window, then the timer's write in flight with both dates
C17Witness ==
  /\ client.selectedDates = <<"d1", "d2">>
  /\ client.pendingDatesRef = <<"d1">>
  /\ client.debounce = <<>>
  /\ client.writes = <<<<"d1", "d2">>>>
  /\ guestStore[PageGuest][1].availability = Unset

\* C34: a guest is shown as responded exactly when its stored availability
\* is not unset, the empty list included: in the host's guest list, in the
\* guest filter, and on the guest's own page after it is loaded again.
C34Claim ==
  /\ [](\A g \in GuestIds :
          guestStore[g] # None =>
            /\ hasResponded(guestStore[g][1]) <=> guestStore[g][1].availability # Unset
            /\ filterHasResponded(guestStore[g][1].availability # Unset, guestStore[g][1])
                 <=> guestStore[g][1].availability # Unset)
  /\ [][loadGuestData =>
          (hasSubmittedAvailability(client')
             <=> guestStore[PageGuest][1].availability # Unset)]_vars

\* C32: when the write of "I am not available" fails, the page shows again
\* the flag and the date selection it showed before the click.
C32Claim ==
  [][\A i \in 1..MaxWrites :
       handleNotAvailableFails(i) =>
         /\ client'.isNotAvailable = client.notAvailableWrites[i].isNotAvailable
         /\ client'.selectedDates = client.notAvailableWrites[i].selectedDates]_vars

(* ---------------------------------------------------------------------- *)
(* Properties of authentication and identifiers                            *)
(* ---------------------------------------------------------------------- *)

\* the header is "Bearer " followed by one token that is signed with the
\* configured secret using HS256 and has not expired
Authorised(authHeader, now) ==
  \E t \in JWTs :
    /\ authHeader = <<Text("Bearer "), t>>
    /\ t.alg = "HS256"
    /\ t.key = Secret
    /\ \A exp \in Times : t.exp = Some(exp) => now < exp

\* C22: the middleware calls the route handler exactly for the authorised
\* requests; every other request is answered 401 UNAUTHORIZED and the
\* handler is not called.
C22Theorem ==
  auth # None =>
    /\ auth[1].outcome.next <=> Authorised(auth[1].header, auth[1].now)
    /\ ~auth[1].outcome.next =>
         /\ auth[1].outcome.status = 401
         /\ auth[1].outcome.body.error = "UNAUTHORIZED"

\* a request with a token of the right key and algorithm that has expired is refused
C22Witness ==
  /\ auth # None
  /\ auth[1].header = <<Text("Bearer "), [alg |-> "HS256", key |-> Secret, exp |-> Some(1)]>>
  /\ auth[1].now = 1
  /\ auth[1].outcome.status = 401

\* a JWT is stored whose stored expiry is past or is not a date
Stale(store) ==
  /\ store.jwt # None
  /\ store.expiry # None
  /\ \/ DateOf(store.expiry[1]) = None
     \/ DateOf(store.expiry[1])[1] <= store.now

\* C23: with a stored JWT whose expiry is past or not a valid date,
\* isAuthenticated returns false and removes both stored items, and a request
\* is sent without an Authorization header; and a call answered 401 removes
\* the stored JWT and expiry and fails with 'Authentication expired'.
C23Claim ==
  /\ [][(isAuthenticated /\ Stale(jwtStore)) =>
          /\ jwtStore'.outcome[1].returns = FALSE
          /\ jwtStore'.jwt = None
          /\ jwtStore'.expiry = None]_vars
  /\ [][\A status \in Statuses :
          (apiCall(status) /\ Stale(jwtStore)) => jwtStore'.sent = Some(<<>>)]_vars
  /\ [][apiCall(401) =>
          /\ jwtStore'.jwt = None
          /\ jwtStore'.expiry = None
          /\ jwtStore'.outcome[1].throws = AuthenticationExpired]_vars

\* C24: every identifier a generator returns has exactly 8 characters, each
\* of [A-Za-z0-9], and the route validator accepts it.
C24Claim ==
  generated # None =>
    /\ Len(generated[1].id) = 8
    /\ \A i \in 1..Len(generated[1].id) : generated[1].id[i] \in Alnum
    /\ isValidId(generated[1].id)

====
